---- MODULE Spec2Model ----
(***************************************************************************)
(* Rule-identifier resolution of the flat configuration model:             *)
(*   lib/config/rule-lookup.js   (RuleLookupError, resolveRuleId,          *)
(*                                searchForPartialRuleNameMatches)         *)
(*   lib/shared/string-utils.js  (enumerateSplitPoints)                    *)
(*                                                                         *)
(* A JavaScript string is a sequence of one-character strings, so that     *)
(* indexOf, lastIndexOf, slice and concatenation are computed, not         *)
(* assumed.  Any other JavaScript value is a record [t, s]: t is its kind  *)
(* and s its text (the characters of a string, the description of a       *)
(* symbol, the digits of a number).                                        *)
(***************************************************************************)
EXTENDS Integers, Sequences, FiniteSets, TLC

VARIABLES
    config,     \* the `plugins` field of the config object handed to the call
    arg,        \* the first argument handed to the call: a rule identifier, an error code
    call,       \* the call made, "none" before it
    outcome,    \* how the call ended: a return value, an exception, a yielded list
    ruleArg,    \* the rule definition handed to the schema functions
    valueArg,   \* the value handed to a validator: a rule's options, or anything else
    schemaCall, \* the last call made on the schema functions, "none" before it
    res,        \* how that call ended
    ajvCache,   \* the schemas in the engine's compilation cache
    compiled,   \* what compileJsonSchema returned, and for which schema
    engineErrors, \* compiledSchema.errors of the compiled schema
    rulesArg,   \* config.rules of the config handed to validate
    validators, \* this.validators of the RuleValidator
    validateRes, \* how validate ended
    otherValidators, \* this.validators of a second RuleValidator
    compilations, \* the rule objects whose schema the first RuleValidator compiled, in order
    history,    \* the validate calls that ended: on which RuleValidator, and how
    splitArgs,  \* the separator and the options handed to enumerateSplitPoints
    versions,   \* the two versions handed to compareEcmaVersions
    comparison  \* how compareEcmaVersions ended

lookupVars == <<config, arg, call, outcome>>
schemaVars == <<ruleArg, valueArg, schemaCall, res, ajvCache, compiled, engineErrors>>
validateVars == <<rulesArg, validators, validateRes>>
instanceVars == <<otherValidators, compilations, history>>
sharedVars == <<splitArgs, versions, comparison>>
vars == <<config, arg, call, outcome, ruleArg, valueArg, schemaCall, res, ajvCache, compiled,
          engineErrors, rulesArg, validators, validateRes, otherValidators, compilations,
          history, splitArgs, versions, comparison>>

----------------------------------------------------------------------------
(* Bounds of the model *)

\* Longest rule identifier (in characters) handed to a call.
MaxLen == 5

\* Largest number of plugins registered in a config.
MaxPlugins == 2

\* Characters of rule identifiers.
Alphabet == {"a", "b", "/"}

Strs(n) == UNION {[1..k -> Alphabet] : k \in 0..n}

----------------------------------------------------------------------------
(* JavaScript values *)

Str(s) == [t |-> "string", s |-> s]
Undefined == [t |-> "undefined", s |-> <<>>]
Null == [t |-> "null", s |-> <<>>]
Five == [t |-> "number", s |-> <<"5">>]
EmptyArray == [t |-> "array", s |-> <<>>]
ArrowFunction == [t |-> "function", s |-> <<>>]
SymbolOf(d) == [t |-> "symbol", s |-> <<d>>]

\* typeof v
TypeOf(v) ==
    IF v.t \in {"null", "array"} THEN "object" ELSE v.t

\* ToBoolean(v)
Truthy(v) ==
    CASE v.t \in {"undefined", "null"} -> FALSE
      [] v.t = "string" -> Len(v.s) > 0
      [] v.t = "number" -> v.s # <<"0">>
      [] OTHER -> TRUE

\* A value in the place of config.plugins: a mapping carries its registry, the
\* entries [name, rules] in insertion order; any other value carries none.
Mapping(reg) == [t |-> "object", s |-> <<>>, reg |-> reg]
NotMapping(v) == [t |-> v.t, s |-> v.s, reg |-> <<>>]

\* str.indexOf(sep, from): the first 0-based position >= from where sep occurs, or -1
IndexOf(str, sep, from) ==
    LET hits == {i \in from..(Len(str) - Len(sep)) : SubSeq(str, i + 1, i + Len(sep)) = sep}
    IN IF hits = {} THEN -1 ELSE CHOOSE i \in hits : \A j \in hits : i <= j

\* str.lastIndexOf(sep)
LastIndexOf(str, sep) ==
    LET hits == {i \in 0..(Len(str) - Len(sep)) : SubSeq(str, i + 1, i + Len(sep)) = sep}
    IN IF hits = {} THEN -1 ELSE CHOOSE i \in hits : \A j \in hits : i >= j

\* str.slice(from, to) and str.slice(from), for 0 <= from
Slice(str, from, to) == SubSeq(str, from + 1, to)
SliceFrom(str, from) == SubSeq(str, from + 1, Len(str))

Slash == <<"/">>

----------------------------------------------------------------------------
(* Outcomes of a call *)

NoCode == Undefined

Outcome(kind, class, code, pluginName, ruleName, items) ==
    [kind |-> kind, class |-> class, code |-> code,
     pluginName |-> pluginName, ruleName |-> ruleName, items |-> items]

NoOutcome == Outcome("none", "", NoCode, <<>>, <<>>, <<>>)

\* return { pluginName, ruleName }
Returned(pluginName, ruleName) == Outcome("return", "", NoCode, pluginName, ruleName, <<>>)

\* an exception of the given class leaves the function; code is its .code
Thrown(class, code) == Outcome("throw", class, code, <<>>, <<>>, <<>>)

\* a `new` expression that completed: the object and its .code
Constructed(class, code) == Outcome("constructed", class, code, <<>>, <<>>, <<>>)

\* a generator that ran to its end: everything it yielded, in order
Yielded(items) == Outcome("yield", "", NoCode, <<>>, <<>>, items)

----------------------------------------------------------------------------
(* lib/shared/string-utils.js *)

RECURSIVE SplitLoop(_, _, _)
\* the for loop of enumerateSplitPoints, entered with the given splitPoint
SplitLoop(str, separator, splitPoint) ==
    IF splitPoint > 0
    THEN << <<Slice(str, 0, splitPoint), SliceFrom(str, splitPoint + Len(separator))>> >>
         \o SplitLoop(str, separator, IndexOf(str, separator, splitPoint + Len(separator)))
    ELSE <<>>

\* function *enumerateSplitPoints(str, separator, { includeStart, includeEnd })
\* threw: a TypeError left the generator; items: the [before, after] pairs yielded
enumerateSplitPoints(str, separator, includeStart, includeEnd) ==
    IF TypeOf(str) # "string"
    THEN [threw |-> TRUE, items |-> <<>>]
    ELSE IF TypeOf(separator) # "string" \/ Len(separator.s) = 0
    THEN [threw |-> TRUE, items |-> <<>>]
    ELSE [threw |-> FALSE,
          items |-> (IF includeStart THEN << <<<<>>, str.s>> >> ELSE <<>>)
                    \o SplitLoop(str.s, separator.s, IndexOf(str.s, separator.s, 0))
                    \o (IF includeEnd THEN << <<str.s, <<>>>> >> ELSE <<>>)]

\* the separator and the options of a call of enumerateSplitPoints
SplitArgs(separator, includeStart, includeEnd) ==
    [separator |-> separator, includeStart |-> includeStart, includeEnd |-> includeEnd]

NoSplitArgs == SplitArgs(Undefined, FALSE, FALSE)

----------------------------------------------------------------------------
(* lib/shared/ecma-versions.js *)

\* A version handed to the helpers: a number n, a string of characters s, or
\* undefined
NumberVersion(n) == [t |-> "number", n |-> n, s |-> <<>>]
StringVersion(s) == [t |-> "string", n |-> 0, s |-> s]
UndefinedVersion == [t |-> "undefined", n |-> 0, s |-> <<>>]

\* The numbers the helpers compute with: a number, NaN or null
Num(n) == [t |-> "number", n |-> n]
NaN == [t |-> "nan", n |-> 0]
NullNum == [t |-> "null", n |-> 0]

Digits == <<"0", "1", "2", "3", "4", "5", "6", "7", "8", "9">>

DigitValue(c) == (CHOOSE i \in 1..Len(Digits) : Digits[i] = c) - 1

\* the digits from one digit through another, of a character class like [6-9]
DigitRange(from, to) == {Digits[i] : i \in (DigitValue(from) + 1)..(DigitValue(to) + 1)}

RECURSIVE ParseInt(_)
\* Number.parseInt(digits, 10) of a string of digits
ParseInt(digits) ==
    IF digits = <<>> THEN 0
    ELSE 10 * ParseInt(SubSeq(digits, 1, Len(digits) - 1)) + DigitValue(digits[Len(digits)])

\* the i flag of the regular expression: a letter matches in either case
LowerCase(c) ==
    CASE c = "E" -> "e"
      [] c = "S" -> "s"
      [] OTHER -> c

\* the group (?<version>3|5|[6-9]|[1-9][0-9]|201[5-9]|20[2-9][0-9])
MatchesVersionGroup(d) ==
    \/ d = <<"3">>
    \/ d = <<"5">>
    \/ Len(d) = 1 /\ d[1] \in DigitRange("6", "9")
    \/ Len(d) = 2 /\ d[1] \in DigitRange("1", "9") /\ d[2] \in DigitRange("0", "9")
    \/ Len(d) = 4 /\ SubSeq(d, 1, 3) = <<"2", "0", "1">> /\ d[4] \in DigitRange("5", "9")
    \/ Len(d) = 4 /\ SubSeq(d, 1, 2) = <<"2", "0">>
                  /\ d[3] \in DigitRange("2", "9") /\ d[4] \in DigitRange("0", "9")

\* ecmaVersionRegex.exec(version): whether the whole string matches, and the
\* text of the group named version
ecmaVersionRegex(version) ==
    LET text == version.s
        matched == /\ version.t = "string"
                   /\ Len(text) >= 2
                   /\ LowerCase(text[1]) = "e"
                   /\ LowerCase(text[2]) = "s"
                   /\ MatchesVersionGroup(SubSeq(text, 3, Len(text)))
    IN [matched |-> matched,
        version |-> IF matched THEN SubSeq(text, 3, Len(text)) ELSE <<>>]

\* getEcmaVersionNumberFromStringOrNumber(version, { limitToSupportedVersions: false }):
\* with the limit off isSupportedEcmaVersion is not evaluated
getEcmaVersionNumberFromStringOrNumber(version) ==
    IF version.t = "number"
    THEN IF \/ version.n = 3
            \/ version.n = 5
            \/ (6 <= version.n /\ version.n < 100)
            \/ (2015 <= version.n /\ version.n < 2100)
         THEN Num(version.n)
         ELSE NullNum
    ELSE LET versionMatch == ecmaVersionRegex(version)
         IN IF ~versionMatch.matched
            THEN NullNum
            ELSE Num(ParseInt(versionMatch.version))

\* version - 2009: the argument itself is converted to a number, and a string
\* that begins with "es" converts to NaN
MinusEpoch(version) ==
    IF version.t = "number" THEN Num(version.n - 2009) ELSE NaN

\* function ecmaVersionToSpecRevision(version, { limitToSupportedVersions: false })
ecmaVersionToSpecRevision(version) ==
    LET versionNum == getEcmaVersionNumberFromStringOrNumber(version)
    IN IF versionNum.t = "number" /\ versionNum.n >= 2015
       THEN MinusEpoch(version)
       ELSE IF versionNum.t = "number" /\ (versionNum.n >= 5 \/ versionNum.n = 3)
       THEN versionNum
       ELSE NullNum

\* !revision: null, NaN and 0 are falsy
Falsy(revision) == revision.t # "number" \/ revision.n = 0

\* how a call of compareEcmaVersions ended: the number returned, or the class
\* of the error thrown
Comparison(kind, class, n) == [kind |-> kind, class |-> class, n |-> n]
NotCompared == Comparison("none", "", 0)

\* function compareEcmaVersions(versionA, versionB)
compareEcmaVersions(versionA, versionB) ==
    LET revisionA == ecmaVersionToSpecRevision(versionA)
        revisionB == ecmaVersionToSpecRevision(versionB)
    IN IF Falsy(revisionA) THEN Comparison("throw", "Error", 0)
       ELSE IF Falsy(revisionB) THEN Comparison("throw", "Error", 0)
       ELSE IF revisionA = revisionB THEN Comparison("return", "", 0)
       ELSE IF revisionA.n < revisionB.n THEN Comparison("return", "", -1)
       ELSE Comparison("return", "", 1)

\* the two arguments of a call of compareEcmaVersions
Versions(versionA, versionB) == [a |-> versionA, b |-> versionB]
NoVersions == Versions(UndefinedVersion, UndefinedVersion)

----------------------------------------------------------------------------
(* The plugin registry: config.plugins *)

\* Object.keys(plugins): the registered plugin names in insertion order
Keys(plugins) ==
    IF plugins.t = "object" THEN [i \in 1..Len(plugins.reg) |-> plugins.reg[i].name] ELSE <<>>

\* HasRule with the last conjunct of the test forgotten: only the plugin is looked up
HasRule_PluginOnly(plugins, pluginName, ruleName) ==
    /\ plugins.t = "object"
    /\ \E i \in 1..Len(plugins.reg) : plugins.reg[i].name = pluginName

\* plugins[pluginName] && plugins[pluginName].rules && plugins[pluginName].rules[ruleName]
HasRule(plugins, pluginName, ruleName) ==
    /\ plugins.t = "object"
    /\ \E i \in 1..Len(plugins.reg) :
          /\ plugins.reg[i].name = pluginName
          /\ ruleName \in plugins.reg[i].rules

----------------------------------------------------------------------------
(* lib/config/rule-lookup.js *)

noBuiltIn == SymbolOf("noBuiltIn")
notInSpecifiedPlugin == SymbolOf("notInSpecifiedPlugin")
notInAnyPlugin == SymbolOf("notInAnyPlugin")

\* static get codes(): the symbol-valued static fields of the class
codes == {noBuiltIn, notInSpecifiedPlugin, notInAnyPlugin}

\* new RuleLookupError(code, message)
RuleLookupError(code) ==
    IF TypeOf(code) = "symbol" /\ code \in codes
    THEN Thrown("TypeError", NoCode)
    ELSE Constructed("RuleLookupError", code)

\* throw new RuleLookupError(code, message): what leaves the function
ThrowRuleLookupError(code) ==
    LET e == RuleLookupError(code)
    IN IF e.kind = "throw" THEN e ELSE Thrown(e.class, e.code)

\* `...${value}...`: a template literal converts a symbol with a TypeError
TemplateThrows(value) == value.t = "symbol"

RECURSIVE MatchingSplits(_, _)
\* the splits among `splits` that name a registered plugin and a rule of it
MatchingSplits(plugins, splits) ==
    IF splits = <<>> THEN <<>>
    ELSE (IF HasRule(plugins, Head(splits)[1], Head(splits)[2])
          THEN <<[pluginName |-> Head(splits)[1], objectName |-> Head(splits)[2]]>>
          ELSE <<>>)
         \o MatchingSplits(plugins, Tail(splits))

\* function* enumerateObjectIdMatches(plugins, "rules", objectId)
enumerateObjectIdMatches(plugins, objectId) ==
    MatchingSplits(plugins, enumerateSplitPoints(objectId, Str(Slash), FALSE, FALSE).items)

\* the last branch of resolveRuleId: enumerateRuleIdMatches is declared nowhere,
\* so evaluating the call ends in a ReferenceError
ResolveMultiSlash(ruleId, plugins) ==
    Thrown("ReferenceError", NoCode)

\* function resolveRuleId(ruleId, { plugins })
resolveRuleId(ruleId, plugins) ==
    IF ~Truthy(ruleId) \/ TypeOf(ruleId) # "string" \/ ~Truthy(plugins) \/ TypeOf(plugins) # "object"
    THEN IF TemplateThrows(ruleId) THEN Thrown("TypeError", NoCode)
         ELSE ThrowRuleLookupError(notInAnyPlugin)
    ELSE LET firstSlash == IndexOf(ruleId.s, Slash, 0) IN
         IF firstSlash = -1
         THEN IF HasRule(plugins, <<"@">>, ruleId.s)
              THEN Returned(<<"@">>, ruleId.s)
              ELSE ThrowRuleLookupError(noBuiltIn)
         ELSE IF firstSlash = LastIndexOf(ruleId.s, Slash)
         THEN LET pluginName == Slice(ruleId.s, 0, firstSlash)
                  ruleName == SliceFrom(ruleId.s, firstSlash + 1)
              IN IF HasRule(plugins, pluginName, ruleName)
                 THEN Returned(pluginName, ruleName)
                 ELSE ThrowRuleLookupError(notInSpecifiedPlugin)
         ELSE ResolveMultiSlash(ruleId, plugins)

RECURSIVE PluginLoop(_, _, _)
\* the inner loop of searchForPartialRuleNameMatches over the plugin names
PluginLoop(plugins, names, ruleName) ==
    IF names = <<>> THEN <<>>
    ELSE (IF HasRule(plugins, Head(names), ruleName)
          THEN <<Head(names) \o Slash \o ruleName>>
          ELSE <<>>)
         \o PluginLoop(plugins, Tail(names), ruleName)

RECURSIVE SuffixLoop(_, _)
\* the outer loop of searchForPartialRuleNameMatches over the split points
SuffixLoop(plugins, splits) ==
    IF splits = <<>> THEN <<>>
    ELSE PluginLoop(plugins, Keys(plugins), Head(splits)[2])
         \o SuffixLoop(plugins, Tail(splits))

\* function *searchForPartialRuleNameMatches(ruleId, { plugins }), run to its end
searchForPartialRuleNameMatches(ruleId, plugins) ==
    IF ~Truthy(plugins) THEN Yielded(<<>>)
    ELSE LET splits == enumerateSplitPoints(ruleId, Str(Slash), TRUE, FALSE)
         IN IF splits.threw THEN Thrown("TypeError", NoCode)
            ELSE Yielded(SuffixLoop(plugins, splits.items))

----------------------------------------------------------------------------
(* Option values and schemas *)

\* A value handed to a schema validator: undefined, null, a plain object, a
\* number n, or an array of numbers (a rule's options after the severity).
Value(t, n, items) == [t |-> t, n |-> n, items |-> items]
UndefinedValue == Value("undefined", 0, <<>>)
NullValue == Value("null", 0, <<>>)
ObjectValue == Value("object", 0, <<>>)
NumberValue(n) == Value("number", n, <<>>)
ArrayValue(items) == Value("array", 0, items)

\* A JSON schema object: k is its one keyword group.
\*   "any"     {}                                   "invalid"  a schema ajv cannot compile
\*   "enum"    {enum: vals}                         "type"     {type: types}
\*   "anyOf"   {anyOf: items}
\*   "array"   {type: "array", items, minItems: min, maxItems: max}
Schema(k, vals, types, items, min, max) ==
    [k |-> k, vals |-> vals, types |-> types, items |-> items, min |-> min, max |-> max]
AnySchema == Schema("any", {}, {}, <<>>, 0, 0)
InvalidSchema == Schema("invalid", {}, {}, <<>>, 0, 0)
EnumSchema(vals) == Schema("enum", vals, {}, <<>>, 0, 0)
TypeSchema(types) == Schema("type", {}, types, <<>>, 0, 0)
AnyOfSchema(items) == Schema("anyOf", {}, {}, items, 0, 0)
ArraySchema(items, min, max) == Schema("array", {}, {"array"}, items, min, max)

\* What sits at rule.schema or rule.meta.schema: nothing (undefined), null, an
\* array of schemas (list), or one schema object (obj).
NoSchema == [f |-> "undefined", list |-> <<>>, obj |-> AnySchema]
NullSchema == [f |-> "null", list |-> <<>>, obj |-> AnySchema]
ListSchema(list) == [f |-> "array", list |-> list, obj |-> AnySchema]
ObjectSchema(obj) == [f |-> "object", list |-> <<>>, obj |-> obj]

\* A rule definition: undefined, null, or an object with schema and meta; meta
\* is "undefined", "null" or "object", and metaSchema is then meta.schema.
Rule(t, schema, meta, metaSchema) ==
    [t |-> t, schema |-> schema, meta |-> meta, metaSchema |-> metaSchema]
UndefinedRule == Rule("undefined", NoSchema, "undefined", NoSchema)
NullRule == Rule("null", NoSchema, "undefined", NoSchema)

\* ToBoolean of a schema value: undefined and null are falsy, arrays (the empty
\* one too) and objects are truthy
SchemaTruthy(sv) == sv.f \in {"array", "object"}

----------------------------------------------------------------------------
(* The schema engine (ajv), as the code uses it *)

\* the JSON type ajv sees in a value; undefined has none
JsonType(v) == v.t

\* the JSON types in the order ajv names them in params.type and in its message
TypeNames(types) ==
    SelectSeq(<<"array", "number", "object", "null">>, LAMBDA name : name \in types)

\* an error object of ajv: {dataPath, keyword, params: {type}, message}
AjvTypeError(dataPath, types) ==
    [dataPath |-> dataPath, keyword |-> "type", types |-> types,
     message |-> <<"should be">> \o TypeNames(types)]

KeywordError(dataPath, keyword) ==
    [dataPath |-> dataPath, keyword |-> keyword, types |-> {},
     message |-> <<"should match", keyword>>]

\* the element at 0-based index i of an array value, as a value
ItemValue(v, i) == NumberValue(v.items[i + 1])

\* the errors of a leaf schema (any, enum, type) for a value, at dataPath
LeafErrors(schema, v, dataPath) ==
    CASE schema.k = "enum" ->
            IF v.t = "number" /\ v.n \in schema.vals THEN <<>>
            ELSE <<KeywordError(dataPath, "enum")>>
      [] schema.k = "type" ->
            IF JsonType(v) \in schema.types THEN <<>>
            ELSE <<AjvTypeError(dataPath, schema.types)>>
      [] OTHER -> <<>>

RECURSIVE FirstItemError(_, _, _)
\* items: the error of the first element, from index i on, that its schema rejects
FirstItemError(schema, v, i) ==
    IF i >= Len(v.items) \/ i >= Len(schema.items) THEN <<>>
    ELSE LET e == LeafErrors(schema.items[i + 1], ItemValue(v, i), <<"[", ToString(i), "]">>)
         IN IF e # <<>> THEN e ELSE FirstItemError(schema, v, i + 1)

RECURSIVE BranchErrors(_, _, _)
\* anyOf: the errors of every branch from index i on
BranchErrors(schema, v, i) ==
    IF i > Len(schema.items) THEN <<>>
    ELSE LeafErrors(schema.items[i], v, <<>>) \o BranchErrors(schema, v, i + 1)

\* compiledSchema(value) of a schema that compiled: the error list ajv leaves in
\* compiledSchema.errors, <<>> standing for null (the value passed).  ajv stops
\* at the first failing keyword; anyOf reports every branch and then itself.
AjvErrors(schema, v) ==
    CASE schema.k = "array" ->
            IF JsonType(v) # "array" THEN <<AjvTypeError(<<>>, {"array"})>>
            ELSE IF Len(v.items) > schema.max THEN <<KeywordError(<<>>, "maxItems")>>
            ELSE IF Len(v.items) < schema.min THEN <<KeywordError(<<>>, "minItems")>>
            ELSE FirstItemError(schema, v, 0)
      [] schema.k = "anyOf" ->
            IF \E i \in 1..Len(schema.items) : LeafErrors(schema.items[i], v, <<>>) = <<>>
            THEN <<>>
            ELSE BranchErrors(schema, v, 1) \o <<KeywordError(<<>>, "anyOf")>>
      [] OTHER -> LeafErrors(schema, v, <<>>)

\* ajv.compile(schema) throws
CompileThrows(schema) == schema.k = "invalid"

----------------------------------------------------------------------------
(* lib/config/flat-config-helpers.js, as it stands at three places of the   *)
(* sources; the suffix is the line of the function                          *)

\* What getRuleOptionsSchema returns: null, or a schema value
NullResult == NullSchema

\* rule.schema || rule.meta && rule.meta.schema, for a rule that is an object
SchemaOrMetaSchema_MetaFirst(rule) ==
    IF rule.meta = "object" /\ SchemaTruthy(rule.metaSchema) THEN rule.metaSchema
    ELSE rule.schema

\* const schema = rule.schema || rule.meta && rule.meta.schema, line 132
SchemaOrMetaSchema(rule) ==
    IF SchemaTruthy(rule.schema) THEN rule.schema
    ELSE IF rule.meta = "object" THEN rule.metaSchema
    ELSE NoSchema

\* function getRuleOptionsSchema(rule), lines 126-153: wraps an array of schemas
getRuleOptionsSchema_L126(rule) ==
    IF rule.t \in {"undefined", "null"} THEN NullResult
    ELSE LET schema == SchemaOrMetaSchema(rule) IN
         IF schema.f = "array"
         THEN IF Len(schema.list) > 0
              THEN ObjectSchema(ArraySchema(schema.list, 0, Len(schema.list)))
              ELSE ObjectSchema(ArraySchema(<<>>, 0, 0))
         ELSE IF SchemaTruthy(schema) THEN schema ELSE NullResult

\* function getRuleOptionsSchema(rule), lines 411-425: the schema as the rule defines it
getRuleOptionsSchema_L411(rule) ==
    IF rule.t \in {"undefined", "null"} THEN NullResult
    ELSE IF SchemaTruthy(rule.schema) THEN rule.schema
    ELSE IF rule.meta = "object" /\ SchemaTruthy(rule.metaSchema) THEN rule.metaSchema
    ELSE NullResult

\* function validateJsonSchemaOnlyAcceptsArraysAtTopLevel(schema), lines 246-283,
\* for a schema object and the engine's compilation cache: the boolean returned
\* and the cache left behind
validateJsonSchemaOnlyAcceptsArraysAtTopLevel_L246(schema, cache) ==
    IF CompileThrows(schema) THEN [ok |-> FALSE, cache |-> cache]
    ELSE LET compiledCache == cache \cup {schema}
             errors == AjvErrors(schema, UndefinedValue)
             topLevelTypeErrors ==
                 SelectSeq(errors, LAMBDA error : error.dataPath = <<>> /\ error.keyword = "type")
         IN IF errors = <<>> THEN [ok |-> FALSE, cache |-> compiledCache]
            ELSE IF \E i \in 1..Len(topLevelTypeErrors) : topLevelTypeErrors[i].types # {"array"}
            THEN [ok |-> FALSE, cache |-> compiledCache \ {schema}]
            ELSE [ok |-> TRUE, cache |-> compiledCache]

\* function getRuleOptionsSchema(rule), lines 290-324: the schema returned and the
\* engine's compilation cache left behind
getRuleOptionsSchema_L290(rule, cache) ==
    IF rule.t \in {"undefined", "null"} THEN [schema |-> NullResult, cache |-> cache]
    ELSE LET schema == SchemaOrMetaSchema(rule) IN
         IF schema.f = "array"
         THEN [schema |-> IF Len(schema.list) > 0
                          THEN ObjectSchema(ArraySchema(schema.list, 0, Len(schema.list)))
                          ELSE ObjectSchema(ArraySchema(<<>>, 0, 0)),
               cache |-> cache]
         ELSE IF schema.f = "undefined" THEN [schema |-> NullResult, cache |-> cache]
         ELSE IF schema.f = "null" THEN [schema |-> NullResult, cache |-> cache]
         ELSE LET v == validateJsonSchemaOnlyAcceptsArraysAtTopLevel_L246(schema.obj, cache)
              IN IF v.ok THEN [schema |-> NullResult, cache |-> v.cache]
                 ELSE [schema |-> schema, cache |-> v.cache]

----------------------------------------------------------------------------
(* lib/config/compile-json-schema.js *)

\* compiledSchema.errors: null, or the list of the last failing check
NullErrors == [null |-> TRUE, list |-> <<>>]
ErrorList(list) == [null |-> FALSE, list |-> list]

\* what compileJsonSchema returned: nothing yet, the validator closure over a
\* compiled schema, or alwaysSucceedsCompiledSchema
NotCompiled == [k |-> "none", schema |-> AnySchema]
ValidatorOf(schema) == [k |-> "validator", schema |-> schema]
alwaysSucceedsCompiledSchema == [k |-> "alwaysSucceeds", schema |-> AnySchema]

\* const emptyArray = Object.freeze([])
emptyArray == <<>>

\* function compileJsonSchema(schema), with the catch clause left out
compileJsonSchema_NoCatch(schema) ==
    IF CompileThrows(schema) THEN [k |-> "throw", schema |-> schema]
    ELSE ValidatorOf(schema)

\* function compileJsonSchema(schema), lines 24-49
compileJsonSchema(schema) ==
    IF CompileThrows(schema) THEN alwaysSucceedsCompiledSchema
    ELSE ValidatorOf(schema)

\* `${error.dataPath} ${error.message}.`
ErrorString(error) == error.dataPath \o <<" ">> \o error.message \o <<".">>

\* the function compileJsonSchema returns, lines 28-39, without line 36
CompiledValidator_KeepsErrors(schema, object) ==
    LET failures == AjvErrors(schema, object)
    IN IF failures = <<>>
       THEN [errors |-> emptyArray, engineErrors |-> NullErrors]
       ELSE [errors |-> [i \in 1..Len(failures) |-> ErrorString(failures[i])],
             engineErrors |-> ErrorList(failures)]

\* the function compileJsonSchema returns, lines 28-39, called with object: the
\* strings it returns and compiledSchema.errors when it is done
CompiledValidator(schema, object) ==
    LET failures == AjvErrors(schema, object)
    IN IF failures = <<>>
       THEN [errors |-> emptyArray, engineErrors |-> NullErrors]
       ELSE [errors |-> [i \in 1..Len(failures) |-> ErrorString(failures[i])],
             engineErrors |-> NullErrors]

\* a call of what compileJsonSchema returned
CallCompiled(c, object, errorsBefore) ==
    IF c.k = "alwaysSucceeds" THEN [errors |-> emptyArray, engineErrors |-> errorsBefore]
    ELSE CompiledValidator(c.schema, object)

----------------------------------------------------------------------------
(* lib/config/flat-config-helpers.js, lines 337-541: the validators of a rule's *)
(* configuration                                                               *)

\* const compileJsonSchema = require("./compile-json-schema"): typeof of what
\* that module exports, module.exports = { compileJsonSchema, ... }
RequiredCompileJsonSchema == "object"

\* How the making or the call of a configuration validator ended
Ended(kind, class, validator, schemas, schema) ==
    [kind |-> kind, class |-> class, validator |-> validator, schemas |-> schemas,
     schema |-> schema]
EndedByThrow(class, validator) == Ended("throw", class, validator, <<>>, AnySchema)
EndedByReturn(validator) == Ended("return", "", validator, <<>>, AnySchema)

\* function allowAnyOptions() {}
allowAnyOptions(options) == EndedByReturn("allowAnyOptions")

disallowOptions_Never(options) == EndedByReturn("disallowOptions")

\* function disallowOptions(ruleName, options)
disallowOptions(options) ==
    IF Len(options.items) > 0 THEN EndedByThrow("Error", "disallowOptions")
    ELSE EndedByReturn("disallowOptions")

\* function makeArraySchemaValidator(schemas): schemas.map(compileJsonSchema)
\* calls what was required once for each schema
makeArraySchemaValidator(schemas) ==
    IF Len(schemas) > 0 /\ RequiredCompileJsonSchema # "function"
    THEN EndedByThrow("TypeError", "makeArraySchemaValidator")
    ELSE Ended("return", "", "arraySchemaValidator", schemas, AnySchema)

\* the function makeArraySchemaValidator returns, lines 455-481: the first
\* pass of its loop calls validators(option), and validators is an array
arraySchemaValidator(schemas, options) ==
    IF Len(options.items) > 0 THEN EndedByThrow("TypeError", "arraySchemaValidator")
    ELSE EndedByReturn("arraySchemaValidator")

\* function makeObjectSchemaValidator(schema)
makeObjectSchemaValidator(schema) ==
    IF RequiredCompileJsonSchema # "function"
    THEN EndedByThrow("TypeError", "makeObjectSchemaValidator")
    ELSE Ended("return", "", "objectSchemaValidator", <<>>, schema)

\* the function makeObjectSchemaValidator returns, lines 494-501
objectSchemaValidator(schema, options) ==
    IF Len(CallCompiled(compileJsonSchema(schema), options, NullErrors).errors) > 0
    THEN EndedByThrow("Error", "objectSchemaValidator")
    ELSE EndedByReturn("objectSchemaValidator")

\* function getRuleConfigurationValidator(rule)
getRuleConfigurationValidator(rule) ==
    IF rule.t \in {"undefined", "null"}
    THEN EndedByThrow("Error", "getRuleConfigurationValidator")
    ELSE LET schema == getRuleOptionsSchema_L411(rule) IN
         IF ~SchemaTruthy(schema) THEN EndedByReturn("allowAnyOptions")
         ELSE IF schema.f = "array" /\ Len(schema.list) = 0 THEN EndedByReturn("disallowOptions")
         ELSE IF schema.f = "array" THEN makeArraySchemaValidator(schema.list)
         ELSE makeObjectSchemaValidator(schema.obj)

\* getRuleConfigurationValidator(rule)(ruleName, options)
ValidateConfiguration(rule, options) ==
    LET made == getRuleConfigurationValidator(rule) IN
    IF made.kind = "throw" THEN made
    ELSE IF made.validator = "allowAnyOptions" THEN allowAnyOptions(options)
    ELSE IF made.validator = "disallowOptions" THEN disallowOptions(options)
    ELSE IF made.validator = "arraySchemaValidator"
         THEN arraySchemaValidator(made.schemas, options)
    ELSE objectSchemaValidator(made.schema, options)

----------------------------------------------------------------------------
(* lib/config/rule-validator.js *)

\* The key "__proto__"
Proto == <<"_", "_", "p", "r", "o", "t", "o", "_", "_">>

\* conf/replacements.json: ruleReplacements.rules[ruleId], the identifiers that
\* replace a removed rule, <<>> for an identifier the table does not have
ruleReplacements(ruleId) ==
    IF ruleId = <<"b">> THEN << <<"a">> >> ELSE <<>>

\* plugins[pluginName].rules[ruleName]: the rule object registered under a
\* rule name, the same object in every plugin that has the name. id is the
\* object's identity, fn tells a rule given as a bare create function, which
\* getRuleFromConfig wraps in an object of its own.
RuleObject(ruleName) ==
    CASE ruleName = <<"a">> ->
            [id |-> ruleName, fn |-> FALSE,
             rule |-> Rule("object", ListSchema(<<EnumSchema({0})>>), "undefined", NoSchema)]
      [] ruleName = <<"b">> ->
            [id |-> ruleName, fn |-> TRUE,
             rule |-> Rule("object", NoSchema, "undefined", NoSchema)]
      [] ruleName = <<>> ->
            [id |-> ruleName, fn |-> FALSE,
             rule |-> Rule("object", NoSchema, "object", ListSchema(<<>>))]
      [] OTHER ->
            [id |-> ruleName, fn |-> FALSE,
             rule |-> Rule("object", NoSchema, "undefined", NoSchema)]

\* getRuleFromConfig giving every identifier a rule object of its own
getRuleFromConfig_PerRuleId(ruleId, plugins) ==
    LET resolved == resolveRuleId(ruleId, plugins) IN
    IF resolved.kind = "throw"
    THEN [kind |-> "throw", error |-> resolved, object |-> RuleObject(<<>>)]
    ELSE [kind |-> "return", error |-> NoOutcome,
          object |-> [RuleObject(resolved.ruleName) EXCEPT !.id = ruleId.s]]

\* function getRuleFromConfig(ruleId, config), lines 110-119: the error of
\* resolveRuleId, or the rule; a function is wrapped in a new object
getRuleFromConfig_L110(ruleId, plugins) ==
    LET resolved == resolveRuleId(ruleId, plugins) IN
    IF resolved.kind = "throw"
    THEN [kind |-> "throw", error |-> resolved, object |-> RuleObject(<<>>)]
    ELSE LET rule == RuleObject(resolved.ruleName) IN
         [kind |-> "return", error |-> NoOutcome, object |->
            IF rule.fn
            THEN [id |-> <<"{ create }">> \o rule.id, fn |-> FALSE,
                  rule |-> Rule("object", NoSchema, "undefined", NoSchema)]
            ELSE rule]

\* An error that leaves validate: its class and .code, the rule key its message
\* names, the candidates of its "Did you mean" list, the replacements it names
\* and the engine errors it lists
ValidateError(class, code, key, alternatives, replacements, failures) ==
    [class |-> class, code |-> code, key |-> key, alternatives |-> alternatives,
     replacements |-> replacements, failures |-> failures]
NoError == ValidateError("", NoCode, <<>>, <<>>, <<>>, <<>>)

\* throw new RuleLookupError(code, message) in resolveRule: the constructor may
\* throw first
NewLookupError(code, key, alternatives, replacements) ==
    IF RuleLookupError(code).kind = "throw"
    THEN ValidateError(RuleLookupError(code).class, NoCode, <<>>, <<>>, <<>>, <<>>)
    ELSE ValidateError("RuleLookupError", code, key, alternatives, replacements, <<>>)

\* function resolveRule(ruleId, config), lines 31-55
resolveRule(ruleId, plugins) ==
    LET got == getRuleFromConfig_L110(Str(ruleId), plugins) IN
    IF got.kind = "return" THEN [kind |-> "return", error |-> NoError, object |-> got.object]
    ELSE [kind |-> "throw", object |-> got.object, error |->
          IF got.error.class # "RuleLookupError"
          THEN ValidateError(got.error.class, got.error.code, <<>>, <<>>, <<>>, <<>>)
          ELSE IF ruleReplacements(ruleId) # <<>>
          THEN NewLookupError(noBuiltIn, ruleId, <<>>, ruleReplacements(ruleId))
          ELSE LET potentialAlternatives == searchForPartialRuleNameMatches(Str(ruleId), plugins)
               IN IF potentialAlternatives.kind = "throw"
                  THEN ValidateError(potentialAlternatives.class, NoCode, <<>>, <<>>, <<>>, <<>>)
                  ELSE NewLookupError(got.error.code, ruleId, potentialAlternatives.items, <<>>)]

\* One entry of config.rules: its key and its options, the severity first
Entry(key, severity, options) == [key |-> key, severity |-> severity, options |-> options]

\* this.validators: the compiled validator of each rule object that has one,
\* by the object's identity, with the validator's .errors
NoValidators == <<>>
Has(cache, id) == \E i \in 1..Len(cache) : cache[i].id = id
Get(cache, id) == cache[CHOOSE i \in 1..Len(cache) : cache[i].id = id]

\* a set that drops the validators the cache had
Set_Replacing(cache, id, schema) == <<[id |-> id, schema |-> schema, errors |-> NullErrors]>>

\* this.validators.set(rule, ajv.compile(schema))
Set(cache, id, schema) == Append(cache, [id |-> id, schema |-> schema, errors |-> NullErrors])

SetErrors(cache, id, errors) ==
    [i \in 1..Len(cache) |-> IF cache[i].id = id THEN [cache[i] EXCEPT !.errors = errors]
                             ELSE cache[i]]

\* How validate ended: a return or the error thrown, the cache it leaves, and
\* the keys it resolved and the keys whose options it checked, in order
ValidateEnd(kind, error, cache, resolved, checked) ==
    [kind |-> kind, error |-> error, cache |-> cache, resolved |-> resolved,
     checked |-> checked]
NotValidated == ValidateEnd("none", NoError, NoValidators, <<>>, <<>>)

\* lines 115-137 with a validator that keeps the errors of its last failure
\* until it is compiled again
CheckOptions_StaleErrors(entry, object, cache) ==
    LET schema == getRuleOptionsSchema_L126(object.rule)
        compiles == ~Has(cache, object.id) /\ SchemaTruthy(schema)
        cached == IF compiles THEN Set(cache, object.id, schema.obj) ELSE cache
    IN IF ~Has(cached, object.id)
       THEN [kind |-> "return", cache |-> cached, checked |-> FALSE, error |-> NoError]
       ELSE LET stale == Get(cached, object.id).errors
                failures == IF stale.null
                            THEN AjvErrors(Get(cached, object.id).schema,
                                           ArrayValue(entry.options))
                            ELSE stale.list
            IN IF failures = <<>>
               THEN [kind |-> "return", checked |-> TRUE, error |-> NoError,
                     cache |-> SetErrors(cached, object.id, NullErrors)]
               ELSE [kind |-> "throw", checked |-> TRUE,
                     cache |-> SetErrors(cached, object.id, ErrorList(failures)),
                     error |-> ValidateError("Error", NoCode, entry.key, <<>>, <<>>, failures)]

\* lines 115-137 with a rule without a validator taking no options
CheckOptions_DisallowsOptions(entry, object, cache) ==
    LET schema == getRuleOptionsSchema_L126(object.rule)
        compiles == ~Has(cache, object.id) /\ SchemaTruthy(schema)
        cached == IF compiles THEN Set(cache, object.id, schema.obj) ELSE cache
    IN IF ~Has(cached, object.id)
       THEN IF entry.options = <<>>
            THEN [kind |-> "return", cache |-> cached, checked |-> FALSE, error |-> NoError]
            ELSE [kind |-> "throw", cache |-> cached, checked |-> FALSE,
                  error |-> ValidateError("Error", NoCode, entry.key, <<>>, <<>>, <<>>)]
       ELSE LET failures == AjvErrors(Get(cached, object.id).schema, ArrayValue(entry.options))
            IN IF failures = <<>>
               THEN [kind |-> "return", checked |-> TRUE, error |-> NoError,
                     cache |-> SetErrors(cached, object.id, NullErrors)]
               ELSE [kind |-> "throw", checked |-> TRUE,
                     cache |-> SetErrors(cached, object.id, ErrorList(failures)),
                     error |-> ValidateError("Error", NoCode, entry.key, <<>>, <<>>, failures)]

\* lines 115-137 with the validator called with all of ruleOptions, the
\* severity too
CheckOptions_WithSeverity(entry, object, cache) ==
    LET schema == getRuleOptionsSchema_L126(object.rule)
        compiles == ~Has(cache, object.id) /\ SchemaTruthy(schema)
        cached == IF compiles THEN Set(cache, object.id, schema.obj) ELSE cache
    IN IF ~Has(cached, object.id)
       THEN [kind |-> "return", cache |-> cached, checked |-> FALSE, error |-> NoError]
       ELSE LET failures == AjvErrors(Get(cached, object.id).schema,
                                      ArrayValue(<<entry.severity>> \o entry.options))
            IN IF failures = <<>>
               THEN [kind |-> "return", checked |-> TRUE, error |-> NoError,
                     cache |-> SetErrors(cached, object.id, NullErrors)]
               ELSE [kind |-> "throw", checked |-> TRUE,
                     cache |-> SetErrors(cached, object.id, ErrorList(failures)),
                     error |-> ValidateError("Error", NoCode, entry.key, <<>>, <<>>, failures)]

\* lines 115-137 for a rule that resolved: the validator is compiled and cached
\* the first time, then called with the options after the severity
CheckOptions(entry, object, cache) ==
    LET schema == getRuleOptionsSchema_L126(object.rule)
        compiles == ~Has(cache, object.id) /\ SchemaTruthy(schema)
        cached == IF compiles /\ ~CompileThrows(schema.obj)
                  THEN Set(cache, object.id, schema.obj)
                  ELSE cache
    IN IF compiles /\ CompileThrows(schema.obj)
       THEN [kind |-> "throw", cache |-> cache, checked |-> FALSE,
             error |-> ValidateError("Error", NoCode, <<>>, <<>>, <<>>, <<>>)]
       ELSE IF ~Has(cached, object.id)
       THEN [kind |-> "return", cache |-> cached, checked |-> FALSE, error |-> NoError]
       ELSE LET failures == AjvErrors(Get(cached, object.id).schema, ArrayValue(entry.options))
            IN IF failures = <<>>
               THEN [kind |-> "return", checked |-> TRUE, error |-> NoError,
                     cache |-> SetErrors(cached, object.id, NullErrors)]
               ELSE [kind |-> "throw", checked |-> TRUE,
                     cache |-> SetErrors(cached, object.id, ErrorList(failures)),
                     error |-> ValidateError("Error", NoCode, entry.key, <<>>, <<>>, failures)]

RECURSIVE ValidateLoop_NoSkip(_, _, _, _, _)
\* the loop of validate without the tests of lines 96 and 109
ValidateLoop_NoSkip(entries, plugins, cache, resolved, checked) ==
    IF entries = <<>> THEN ValidateEnd("return", NoError, cache, resolved, checked)
    ELSE LET entry == Head(entries)
             found == resolveRule(entry.key, plugins)
             done == CheckOptions(entry, found.object, cache)
             nowChecked == IF done.checked THEN Append(checked, entry.key) ELSE checked
         IN IF found.kind = "throw"
            THEN ValidateEnd("throw", found.error, cache, Append(resolved, entry.key), checked)
            ELSE IF done.kind = "throw"
            THEN ValidateEnd("throw", done.error, done.cache,
                             Append(resolved, entry.key), nowChecked)
            ELSE ValidateLoop_NoSkip(Tail(entries), plugins, done.cache,
                                     Append(resolved, entry.key), nowChecked)

RECURSIVE ValidateLoop_KeepsGoing(_, _, _, _, _)
\* the loop of validate made to visit every entry and to throw, at the end,
\* the first error it met
ValidateLoop_KeepsGoing(entries, plugins, cache, resolved, checked) ==
    IF entries = <<>> THEN ValidateEnd("return", NoError, cache, resolved, checked)
    ELSE LET entry == Head(entries)
             found == resolveRule(entry.key, plugins)
             done == CheckOptions(entry, found.object, cache)
             nowChecked == IF done.checked THEN Append(checked, entry.key) ELSE checked
         IN IF entry.key = Proto \/ entry.severity = 0
            THEN ValidateLoop_KeepsGoing(Tail(entries), plugins, cache, resolved, checked)
            ELSE IF found.kind = "throw"
            THEN [ValidateLoop_KeepsGoing(Tail(entries), plugins, cache,
                                          Append(resolved, entry.key), checked)
                    EXCEPT !.kind = "throw", !.error = found.error]
            ELSE IF done.kind = "throw"
            THEN [ValidateLoop_KeepsGoing(Tail(entries), plugins, done.cache,
                                          Append(resolved, entry.key), nowChecked)
                    EXCEPT !.kind = "throw", !.error = done.error]
            ELSE ValidateLoop_KeepsGoing(Tail(entries), plugins, done.cache,
                                         Append(resolved, entry.key), nowChecked)

RECURSIVE ValidateLoop(_, _, _, _, _)
\* the loop of validate, lines 93-138, over the entries still to visit
ValidateLoop(entries, plugins, cache, resolved, checked) ==
    IF entries = <<>> THEN ValidateEnd("return", NoError, cache, resolved, checked)
    ELSE LET entry == Head(entries)
             found == resolveRule(entry.key, plugins)
             done == CheckOptions(entry, found.object, cache)
             nowChecked == IF done.checked THEN Append(checked, entry.key) ELSE checked
         IN IF entry.key = Proto \/ entry.severity = 0
            THEN ValidateLoop(Tail(entries), plugins, cache, resolved, checked)
            ELSE IF found.kind = "throw"
            THEN ValidateEnd("throw", found.error, cache, Append(resolved, entry.key), checked)
            ELSE IF done.kind = "throw"
            THEN ValidateEnd("throw", done.error, done.cache,
                             Append(resolved, entry.key), nowChecked)
            ELSE ValidateLoop(Tail(entries), plugins, done.cache,
                              Append(resolved, entry.key), nowChecked)

\* What config.rules is: nothing (undefined), or entries in insertion order
NoRules == [t |-> "undefined", entries |-> <<>>]
RulesOf(entries) == [t |-> "object", entries |-> entries]

\* validate(config), lines 87-139
validate(rules, plugins, cache) ==
    IF rules.t = "undefined" THEN ValidateEnd("return", NoError, cache, <<>>, <<>>)
    ELSE ValidateLoop(rules.entries, plugins, cache, <<>>, <<>>)

----------------------------------------------------------------------------
(* The inputs of the schema functions *)

\* Longest array of positional schemas a rule declares.
MaxSchemas == 2

\* Longest options array (after the severity) handed to a validator.
MaxOptions == 3

\* The numbers an option may be; {enum: [n]} is the schema of position n.
OptionNumbers == {0, 1}

PositionalSchemas == {EnumSchema({n}) : n \in OptionNumbers}

ObjectSchemas ==
    { AnySchema, InvalidSchema, EnumSchema({0}),
      TypeSchema({"array"}), TypeSchema({"object"}), TypeSchema({"array", "object"}),
      AnyOfSchema(<<TypeSchema({"array"}), TypeSchema({"object"})>>) }

SchemaValues ==
    {NoSchema, NullSchema}
    \cup {ListSchema(list) : list \in UNION {[1..n -> PositionalSchemas] : n \in 0..MaxSchemas}}
    \cup {ObjectSchema(obj) : obj \in ObjectSchemas}

Rules ==
    {UndefinedRule, NullRule}
    \cup {Rule("object", sv, meta, NoSchema) : sv \in SchemaValues, meta \in {"undefined", "null"}}
    \cup {Rule("object", sv, "object", msv) : sv \in SchemaValues, msv \in SchemaValues}

Values ==
    {UndefinedValue, NullValue, ObjectValue, NumberValue(0)}
    \cup {ArrayValue(items) : items \in UNION {[1..n -> OptionNumbers] : n \in 0..MaxOptions}}

\* How a call on the schema functions ended: the schema a function returned, or
\* the error strings a validator returned
Res(kind, class, validator, schema, errors) ==
    [kind |-> kind, class |-> class, validator |-> validator, schema |-> schema,
     errors |-> errors]
NoRes == Res("none", "", "", NullSchema, <<>>)
SchemaReturned(schema) == Res("return", "", "", schema, <<>>)
ErrorsReturned(errors) == Res("return", "", "", NullSchema, errors)
ValidatorEnded(e) == Res(e.kind, e.class, e.validator, NullSchema, <<>>)

----------------------------------------------------------------------------
(* lib/config/flat-config-helpers.js: the lookup by parseRuleId *)

\* function parseRuleId(ruleId): the two parts, or threw when ruleId has no
\* includes method. An array has one, and as a property key the empty array
\* is the empty string.
parseRuleId(ruleId) ==
    IF ruleId.t \notin {"string", "array"}
    THEN [threw |-> TRUE, pluginName |-> <<>>, ruleName |-> <<>>]
    ELSE IF ruleId.t = "string" /\ IndexOf(ruleId.s, Slash, 0) # -1
    THEN LET pluginName ==
                 IF ruleId.s[1] = "@"
                 THEN Slice(ruleId.s, 0, LastIndexOf(ruleId.s, Slash))
                 ELSE Slice(ruleId.s, 0, IndexOf(ruleId.s, Slash, 0))
         IN [threw |-> FALSE, pluginName |-> pluginName,
             ruleName |-> SliceFrom(ruleId.s, Len(pluginName) + 1)]
    ELSE [threw |-> FALSE, pluginName |-> <<"@">>, ruleName |-> ruleId.s]

\* return rule, when no rule was found: undefined, or the falsy value met
ReturnedUndefined == Outcome("return", "undefined", NoCode, <<>>, <<>>, <<>>)

\* function getRuleFromConfig(ruleId, config), lines 388-404: the rule found,
\* told by the plugin and the name it was found under
getRuleFromConfig_L388(ruleId, plugins) ==
    LET parsed == parseRuleId(ruleId)
    IN IF parsed.threw THEN Thrown("TypeError", NoCode)
       ELSE IF HasRule(plugins, parsed.pluginName, parsed.ruleName)
       THEN Returned(parsed.pluginName, parsed.ruleName)
       ELSE ReturnedUndefined

----------------------------------------------------------------------------
(* The inputs of the calls *)

\* Plugin names a config may register, in the order it registers them: the
\* built-in namespace, a plain name, a name with a slash in it, the empty name.
PluginNames == << <<"@">>, <<"a">>, <<"a", "/", "b">>, <<>> >>

\* The rule names one plugin may hold.
RuleSets == { {}, {<<"a">>}, {<<"b">>}, {<<"b", "/", "a">>}, {<<>>} }

\* The elements of a set of numbers in increasing order
Ascending(S) ==
    CHOOSE q \in [1..Cardinality(S) -> S] : \A i, j \in 1..Cardinality(S) : i < j => q[i] < q[j]

Registries ==
    UNION { { [i \in 1..Cardinality(S) |->
                 [name |-> PluginNames[Ascending(S)[i]], rules |-> f[Ascending(S)[i]]]]
              : f \in [S -> RuleSets] }
            : S \in {T \in SUBSET (1..Len(PluginNames)) : Cardinality(T) <= MaxPlugins} }

NonStrings == {Undefined, Null, Five, EmptyArray, ArrowFunction, SymbolOf("toStringTag")}

\* config.plugins: a registry, or a value that is no mapping (undefined also
\* stands for a config without a plugins field)
PluginsValues ==
    {Mapping(r) : r \in Registries} \cup {NotMapping(v) : v \in NonStrings \cup {Str(<<>>)}}

\* Identifiers that begin with "@", as the names of scoped packages do
ScopedRuleIds == {Str(<<"@", "/", "a">>), Str(<<"@", "/", "b", "/", "a">>)}

RuleIdValues == {Str(s) : s \in Strs(MaxLen)} \cup ScopedRuleIds \cup NonStrings

CodeValues == codes \cup NonStrings \cup {Str(<<>>)} \cup {Str(<<"Symbol()">>) }

----------------------------------------------------------------------------
(* The state machine: a caller holds one config and one argument value and  *)
(* makes one call with them                                                 *)

Init ==
    /\ config \in PluginsValues
    /\ arg \in RuleIdValues \cup CodeValues
    /\ call = "none"
    /\ outcome = NoOutcome
    /\ ruleArg = UndefinedRule
    /\ valueArg = UndefinedValue
    /\ schemaCall = "none"
    /\ res = NoRes
    /\ ajvCache = {}
    /\ compiled = NotCompiled
    /\ engineErrors = NullErrors
    /\ rulesArg = NoRules
    /\ validators = NoValidators
    /\ validateRes = NotValidated
    /\ otherValidators = NoValidators
    /\ compilations = <<>>
    /\ history = <<>>
    /\ splitArgs = NoSplitArgs
    /\ versions = NoVersions
    /\ comparison = NotCompared

\* resolveRuleId(ruleId, config) that takes the rule it finds out of the config
ResolveRuleId_Consuming ==
    /\ call \in {"none", "resolveRuleId"}
    /\ arg \in RuleIdValues
    /\ call' = (IF call = "none" THEN "resolveRuleId" ELSE "resolveRuleId twice")
    /\ outcome' = resolveRuleId(arg, config)
    /\ config' = (IF outcome'.kind = "return" THEN Mapping(<<>>) ELSE config)
    /\ UNCHANGED arg
    /\ UNCHANGED schemaVars
    /\ UNCHANGED validateVars
    /\ UNCHANGED instanceVars
    /\ UNCHANGED sharedVars

\* resolveRuleId(ruleId, config), called once or a second time with the same
\* arguments
ResolveRuleId ==
    /\ call \in {"none", "resolveRuleId"}
    /\ arg \in RuleIdValues
    /\ call' = (IF call = "none" THEN "resolveRuleId" ELSE "resolveRuleId twice")
    /\ outcome' = resolveRuleId(arg, config)
    /\ UNCHANGED <<config, arg>>
    /\ UNCHANGED schemaVars
    /\ UNCHANGED validateVars
    /\ UNCHANGED instanceVars
    /\ UNCHANGED sharedVars

\* [...searchForPartialRuleNameMatches(ruleId, config)]
SearchForPartialRuleNameMatches ==
    /\ call = "none"
    /\ arg \in RuleIdValues
    /\ call' = "searchForPartialRuleNameMatches"
    /\ outcome' = searchForPartialRuleNameMatches(arg, config)
    /\ UNCHANGED <<config, arg>>
    /\ UNCHANGED schemaVars
    /\ UNCHANGED validateVars
    /\ UNCHANGED instanceVars
    /\ UNCHANGED sharedVars

\* getRuleFromConfig(ruleId, config) of lines 388-404
GetRuleFromConfig_L388 ==
    /\ call = "none"
    /\ arg \in RuleIdValues
    /\ call' = "getRuleFromConfig"
    /\ outcome' = getRuleFromConfig_L388(arg, config)
    /\ UNCHANGED <<config, arg>>
    /\ UNCHANGED schemaVars
    /\ UNCHANGED validateVars
    /\ UNCHANGED instanceVars
    /\ UNCHANGED sharedVars

\* new RuleLookupError(code, "")
NewRuleLookupError ==
    /\ call = "none"
    /\ arg \in CodeValues
    /\ call' = "new RuleLookupError"
    /\ outcome' = RuleLookupError(arg)
    /\ UNCHANGED <<config, arg>>
    /\ UNCHANGED schemaVars
    /\ UNCHANGED validateVars
    /\ UNCHANGED instanceVars
    /\ UNCHANGED sharedVars

Next ==
    \/ ResolveRuleId
    \/ SearchForPartialRuleNameMatches
    \/ GetRuleFromConfig_L388
    \/ NewRuleLookupError

Spec == Init /\ [][Next]_vars

----------------------------------------------------------------------------
(* The state machine of the schema functions: a caller holds one rule and one *)
(* value, asks for the rule's options schema, or compiles it and calls the    *)
(* validator any number of times                                              *)

SchemaInit ==
    /\ config = NotMapping(Undefined)
    /\ arg = Undefined
    /\ call = "none"
    /\ outcome = NoOutcome
    /\ ruleArg \in Rules
    /\ valueArg \in Values
    /\ schemaCall = "none"
    /\ res = NoRes
    /\ ajvCache = {}
    /\ compiled = NotCompiled
    /\ engineErrors = NullErrors
    /\ rulesArg = NoRules
    /\ validators = NoValidators
    /\ validateRes = NotValidated
    /\ otherValidators = NoValidators
    /\ compilations = <<>>
    /\ history = <<>>
    /\ splitArgs = NoSplitArgs
    /\ versions = NoVersions
    /\ comparison = NotCompared

\* getRuleOptionsSchema(rule), lines 126-153
GetRuleOptionsSchema_L126 ==
    /\ schemaCall = "none"
    /\ schemaCall' = "getRuleOptionsSchema_L126"
    /\ res' = SchemaReturned(getRuleOptionsSchema_L126(ruleArg))
    /\ UNCHANGED <<ruleArg, valueArg, ajvCache, compiled, engineErrors>>
    /\ UNCHANGED lookupVars
    /\ UNCHANGED validateVars
    /\ UNCHANGED instanceVars
    /\ UNCHANGED sharedVars

\* getRuleOptionsSchema(rule), lines 290-324
GetRuleOptionsSchema_L290 ==
    /\ schemaCall = "none"
    /\ schemaCall' = "getRuleOptionsSchema_L290"
    /\ res' = SchemaReturned(getRuleOptionsSchema_L290(ruleArg, ajvCache).schema)
    /\ ajvCache' = getRuleOptionsSchema_L290(ruleArg, ajvCache).cache
    /\ UNCHANGED <<ruleArg, valueArg, compiled, engineErrors>>
    /\ UNCHANGED lookupVars
    /\ UNCHANGED validateVars
    /\ UNCHANGED instanceVars
    /\ UNCHANGED sharedVars

\* getRuleOptionsSchema(rule), lines 411-425
GetRuleOptionsSchema_L411 ==
    /\ schemaCall = "none"
    /\ schemaCall' = "getRuleOptionsSchema_L411"
    /\ res' = SchemaReturned(getRuleOptionsSchema_L411(ruleArg))
    /\ UNCHANGED <<ruleArg, valueArg, ajvCache, compiled, engineErrors>>
    /\ UNCHANGED lookupVars
    /\ UNCHANGED validateVars
    /\ UNCHANGED instanceVars
    /\ UNCHANGED sharedVars

\* getRuleConfigurationValidator(rule)(ruleName, options), lines 510-529
GetRuleConfigurationValidator ==
    /\ schemaCall = "none"
    /\ valueArg.t = "array"
    /\ schemaCall' = "getRuleConfigurationValidator"
    /\ res' = ValidatorEnded(ValidateConfiguration(ruleArg, valueArg))
    /\ UNCHANGED <<ruleArg, valueArg, ajvCache, compiled, engineErrors>>
    /\ UNCHANGED lookupVars
    /\ UNCHANGED validateVars
    /\ UNCHANGED instanceVars
    /\ UNCHANGED sharedVars

\* the schema handed to compileJsonSchema: the options schema of the rule
CompileInput == getRuleOptionsSchema_L126(ruleArg).obj

\* compileJsonSchema(schema), lines 24-49
CompileJsonSchema ==
    /\ schemaCall = "none"
    /\ getRuleOptionsSchema_L126(ruleArg).f = "object"
    /\ schemaCall' = "compileJsonSchema"
    /\ compiled' = compileJsonSchema(CompileInput)
    /\ UNCHANGED <<ruleArg, valueArg, res, ajvCache, engineErrors>>
    /\ UNCHANGED lookupVars
    /\ UNCHANGED validateVars
    /\ UNCHANGED instanceVars
    /\ UNCHANGED sharedVars

\* validator(object): a call of what compileJsonSchema returned, lines 28-39
InvokeValidator ==
    /\ schemaCall \in {"compileJsonSchema", "validator"}
    /\ compiled.k \in {"validator", "alwaysSucceeds"}
    /\ \E object \in Values :
          /\ valueArg' = object
          /\ res' = ErrorsReturned(CallCompiled(compiled, object, engineErrors).errors)
          /\ engineErrors' = CallCompiled(compiled, object, engineErrors).engineErrors
    /\ schemaCall' = "validator"
    /\ UNCHANGED <<ruleArg, ajvCache, compiled>>
    /\ UNCHANGED lookupVars
    /\ UNCHANGED validateVars
    /\ UNCHANGED instanceVars
    /\ UNCHANGED sharedVars

SchemaNext ==
    \/ CompileJsonSchema
    \/ InvokeValidator
    \/ GetRuleOptionsSchema_L126
    \/ GetRuleOptionsSchema_L290
    \/ GetRuleOptionsSchema_L411
    \/ GetRuleConfigurationValidator

SpecSchema == SchemaInit /\ [][SchemaNext]_vars

----------------------------------------------------------------------------
(* What the properties speak about, read off the state alone *)

\* the argument is a non-empty string
IsIdentifier == arg.t = "string" /\ Len(arg.s) > 0

\* config.plugins is a non-null mapping (an array is not one)
IsMapping == config.t = "object"

SlashPositions(s) == {i \in 1..Len(s) : s[i] = "/"}
Before(s, i) == SubSeq(s, 1, i - 1)
After(s, i) == SubSeq(s, i + 1, Len(s))

\* the registry of the config holds plugin p with a rule named r
RuleExists(p, r) ==
    /\ IsMapping
    /\ \E e \in {config.reg[i] : i \in DOMAIN config.reg} : e.name = p /\ r \in e.rules

\* the slash positions of s at which the split names a registered plugin and rule
MatchingPositions(s) == {i \in SlashPositions(s) : RuleExists(Before(s, i), After(s, i))}

Least(S) == CHOOSE i \in S : \A j \in S : i <= j

ThrewLookupError(code) == outcome = Thrown("RuleLookupError", code)

RECURSIVE Flatten(_)
Flatten(ss) == IF ss = <<>> THEN <<>> ELSE Head(ss) \o Flatten(Tail(ss))

\* the whole identifier, then the part after each of its slashes, left to right
Suffixes(s) ==
    <<s>> \o [k \in 1..Cardinality(SlashPositions(s)) |-> After(s, Ascending(SlashPositions(s))[k])]

\* "<pluginName>/<suffix>" for the registered plugins, in registration order,
\* that have a rule named exactly suffix
CandidatesFor(suffix) ==
    LET having == SelectSeq(config.reg, LAMBDA e : suffix \in e.rules)
    IN [k \in DOMAIN having |-> having[k].name \o <<"/">> \o suffix]

ExpectedPartialMatches ==
    IF IsMapping
    THEN Flatten([k \in DOMAIN Suffixes(arg.s) |-> CandidatesFor(Suffixes(arg.s)[k])])
    ELSE <<>>

----------------------------------------------------------------------------
(* The properties *)

\* C1: for a non-empty identifier without a slash and a registry that is a
\* non-null mapping, resolveRuleId returns {pluginName: "@", ruleName: r} exactly
\* when plugins["@"].rules[r] exists, and otherwise fails with a lookup error of
\* kind NO_BUILT_IN.
C1_BareIdentifier ==
    (call = "resolveRuleId" /\ IsIdentifier /\ IsMapping /\ SlashPositions(arg.s) = {})
    => IF RuleExists(<<"@">>, arg.s)
       THEN outcome = Returned(<<"@">>, arg.s)
       ELSE ThrewLookupError(noBuiltIn)

\* C2: for an identifier with exactly one slash, resolveRuleId returns the split
\* at that slash exactly when plugins[pluginName].rules[ruleName] exists, and
\* otherwise fails with a lookup error of kind NOT_IN_SPECIFIED_PLUGIN, whatever
\* the other plugins hold.
C2_SingleSlash ==
    (call = "resolveRuleId" /\ IsIdentifier /\ IsMapping /\ Cardinality(SlashPositions(arg.s)) = 1)
    => LET i == Least(SlashPositions(arg.s))
       IN IF RuleExists(Before(arg.s, i), After(arg.s, i))
          THEN outcome = Returned(Before(arg.s, i), After(arg.s, i))
          ELSE ThrewLookupError(notInSpecifiedPlugin)

\* C3: for an identifier with two or more slashes, resolveRuleId returns the
\* first split, in order of increasing prefix length, whose plugin is registered
\* and has a rule of the remaining name.
C3_FirstMatchingSplit ==
    (/\ call = "resolveRuleId" /\ IsIdentifier /\ IsMapping
     /\ Cardinality(SlashPositions(arg.s)) >= 2
     /\ MatchingPositions(arg.s) # {})
    => LET i == Least(MatchingPositions(arg.s))
       IN outcome = Returned(Before(arg.s, i), After(arg.s, i))

\* C4: for an identifier with two or more slashes none of whose splits names a
\* registered plugin with a rule of the remaining name, resolveRuleId fails with
\* a lookup error of kind NOT_IN_ANY_PLUGIN.
C4_NoSplitMatches ==
    (/\ call = "resolveRuleId" /\ IsIdentifier /\ IsMapping
     /\ Cardinality(SlashPositions(arg.s)) >= 2
     /\ MatchingPositions(arg.s) = {})
    => ThrewLookupError(notInAnyPlugin)

\* C5: for a ruleId that is not a non-empty string and a valid registry,
\* resolveRuleId fails with a RuleLookupError of kind NOT_IN_ANY_PLUGIN and with
\* no other exception.
C5_InvalidRuleId ==
    (call = "resolveRuleId" /\ ~IsIdentifier /\ IsMapping)
    => ThrewLookupError(notInAnyPlugin)

\* C6: for a plugins value that is missing or is not a non-null mapping,
\* resolveRuleId of an identifier fails with a RuleLookupError of kind
\* NOT_IN_ANY_PLUGIN, whatever the shape of the identifier.
C6_InvalidPlugins ==
    (call = "resolveRuleId" /\ IsIdentifier /\ ~IsMapping)
    => ThrewLookupError(notInAnyPlugin)

\* C7 as stated: whenever resolveRuleId returns {pluginName, ruleName}, both are
\* non-empty, they spell the identifier (or name the built-in plugin and the
\* whole identifier), and the registry holds that rule.
C7_ResolvedPairNonEmpty ==
    (call = "resolveRuleId" /\ outcome.kind = "return")
    => /\ outcome.pluginName # <<>>
       /\ outcome.ruleName # <<>>
       /\ \/ outcome.pluginName \o <<"/">> \o outcome.ruleName = arg.s
          \/ outcome.pluginName = <<"@">> /\ outcome.ruleName = arg.s
       /\ RuleExists(outcome.pluginName, outcome.ruleName)

\* C7 as amended: whenever resolveRuleId returns {pluginName, ruleName}, the
\* identifier is a non-empty string, the pair spells it (or names the built-in
\* plugin and the whole, slash-free identifier), and the registry holds that
\* rule; either name may be the empty string.
C7_ResolvedPair ==
    (call = "resolveRuleId" /\ outcome.kind = "return")
    => /\ IsIdentifier
       /\ \/ outcome.pluginName \o <<"/">> \o outcome.ruleName = arg.s
          \/ /\ outcome.pluginName = <<"@">>
             /\ outcome.ruleName = arg.s
             /\ SlashPositions(arg.s) = {}
       /\ RuleExists(outcome.pluginName, outcome.ruleName)

\* C7, its case: a resolution that returned a pair with an empty plugin name
C7_Witness ==
    /\ call = "resolveRuleId"
    /\ outcome.kind = "return"
    /\ outcome.pluginName = <<>>
    /\ outcome.ruleName # <<>>

\* C8: resolveRuleId either returns a pair or throws a RuleLookupError whose
\* code is one of the three kinds; no other exception leaves it.
C8_OnlyLookupErrors ==
    call = "resolveRuleId"
    => \/ outcome.kind = "return"
       \/ /\ outcome.kind = "throw"
          /\ outcome.class = "RuleLookupError"
          /\ outcome.code \in {noBuiltIn, notInSpecifiedPlugin, notInAnyPlugin}

\* C9: constructing a RuleLookupError succeeds and stores the code exactly when
\* the code is one of the three kinds; for any other code it throws a TypeError.
C9_ConstructorChecksCode ==
    call = "new RuleLookupError"
    => IF arg \in {noBuiltIn, notInSpecifiedPlugin, notInAnyPlugin}
       THEN outcome = Constructed("RuleLookupError", arg)
       ELSE outcome = Thrown("TypeError", NoCode)

\* C10: for a string identifier, searchForPartialRuleNameMatches yields
\* "<pluginName>/<suffix>" for exactly the registered plugins that have a rule
\* named suffix, suffix being the whole identifier or the part after one of its
\* slashes, in order of suffix, without deduplication, and nothing when plugins
\* is missing.
C10_PartialMatches ==
    (call = "searchForPartialRuleNameMatches" /\ arg.t = "string")
    => outcome = Yielded(ExpectedPartialMatches)

----------------------------------------------------------------------------
(* The state machine of the rule validator: one RuleValidator, which may have *)
(* validated the rule "a" before, is handed one config                       *)

\* Most entries config.rules has.
MaxEntries == 2

\* The keys of config.rules
RuleKeys ==
    { <<"a">>, <<"b">>, <<"a", "b">>, <<"a", "/", "b">>, <<"a", "/", "b", "/", "a">>, Proto }

\* The severities of an entry: off and error
Severities == {0, 2}

\* The options of an entry after its severity
OptionLists == { <<>>, <<0>>, <<1>> }

Entries == {Entry(key, severity, options) :
               key \in RuleKeys, severity \in Severities, options \in OptionLists}

\* config.rules: entries with different keys, in insertion order
RulesValues ==
    {NoRules} \cup
    {RulesOf(entries) : entries \in
        {q \in UNION {[1..n -> Entries] : n \in 0..MaxEntries} :
            \A i, j \in 1..Len(q) : i # j => q[i].key # q[j].key}}

\* The rules one plugin holds: none, the rule "a" with its schema, the bare
\* function "b", or the rule "ab" that declares no schema
ValidatedRuleSets == { {}, {<<"a">>}, {<<"b">>}, {<<"a", "b">>} }

\* config.plugins: the registries with the built-in plugin, the plugin "a", both
\* or neither
ValidatedRegistries ==
    { <<>> }
    \cup { <<[name |-> name, rules |-> rules]>> :
              name \in {<<"@">>, <<"a">>}, rules \in ValidatedRuleSets }
    \cup { <<[name |-> <<"@">>, rules |-> builtIn], [name |-> <<"a">>, rules |-> rules]>> :
              builtIn \in ValidatedRuleSets, rules \in ValidatedRuleSets }

\* this.validators before the call: empty, or holding the validator of the
\* rule "a" that an earlier call compiled
ValidatorsValues ==
    { NoValidators,
      Set(NoValidators, <<"a">>, getRuleOptionsSchema_L126(RuleObject(<<"a">>).rule).obj) }

ValidateInit ==
    /\ config \in {Mapping(r) : r \in ValidatedRegistries}
    /\ arg = Undefined
    /\ call = "none"
    /\ outcome = NoOutcome
    /\ ruleArg = UndefinedRule
    /\ valueArg = UndefinedValue
    /\ schemaCall = "none"
    /\ res = NoRes
    /\ ajvCache = {}
    /\ compiled = NotCompiled
    /\ engineErrors = NullErrors
    /\ rulesArg \in RulesValues
    /\ validators \in ValidatorsValues
    /\ validateRes = NotValidated
    /\ otherValidators = NoValidators
    /\ compilations = <<>>
    /\ history = <<>>
    /\ splitArgs = NoSplitArgs
    /\ versions = NoVersions
    /\ comparison = NotCompared

\* the rule objects a call added to a cache, each added by
\* this.validators.set(rule, ajv.compile(schema))
Added(before, after) == [i \in 1..(Len(after) - Len(before)) |-> after[Len(before) + i].id]

\* a call of validate that ended, on the first or on the second RuleValidator
Ended1(end) == [instance |-> 1, kind |-> end.kind, class |-> end.error.class]
Ended2(end) == [instance |-> 2, kind |-> end.kind, class |-> end.error.class]

\* validate(config), lines 87-139
Validate ==
    /\ call = "none"
    /\ call' = "validate"
    /\ validateRes' = validate(rulesArg, config, validators)
    /\ validators' = validate(rulesArg, config, validators).cache
    /\ compilations' = compilations \o Added(validators, validators')
    /\ history' = Append(history, Ended1(validateRes'))
    /\ UNCHANGED <<config, arg, outcome, rulesArg, otherValidators>>
    /\ UNCHANGED schemaVars
    /\ UNCHANGED sharedVars

ValidateNext == Validate

SpecValidate == ValidateInit /\ [][ValidateNext]_vars

----------------------------------------------------------------------------
(* The state machine of two RuleValidators that share one plugin registry and *)
(* are handed one config after the other                                      *)

\* Most calls of validate in one behaviour.
MaxCalls == 2

\* The keys of config.rules: "a" and "a/a" name the same rule object
SharedRuleKeys == { <<"a">>, <<"a", "/", "a">>, <<"a", "/">> }

\* config.plugins: the built-in plugin has the rule "a", and there is a plugin "a"
SharedRegistries ==
    {r \in Registries :
        /\ Len(r) = 2
        /\ r[1].name = <<"@">>
        /\ r[1].rules = {<<"a">>}
        /\ r[2].name = <<"a">>}

\* config.rules: enabled entries with different keys, in insertion order
SharedRulesValues ==
    {RulesOf(entries) : entries \in
        {q \in UNION {[1..n -> {Entry(key, 2, options) :
                                   key \in SharedRuleKeys, options \in {<<0>>, <<1>>}}]
                         : n \in 0..MaxEntries} :
            \A i, j \in 1..Len(q) : i # j => q[i].key # q[j].key}}

InstancesInit ==
    /\ config \in {Mapping(r) : r \in SharedRegistries}
    /\ arg = Undefined
    /\ call = "none"
    /\ outcome = NoOutcome
    /\ ruleArg = UndefinedRule
    /\ valueArg = UndefinedValue
    /\ schemaCall = "none"
    /\ res = NoRes
    /\ ajvCache = {}
    /\ compiled = NotCompiled
    /\ engineErrors = NullErrors
    /\ rulesArg = NoRules
    /\ validators = NoValidators
    /\ validateRes = NotValidated
    /\ otherValidators = NoValidators
    /\ compilations = <<>>
    /\ history = <<>>
    /\ splitArgs = NoSplitArgs
    /\ versions = NoVersions
    /\ comparison = NotCompared

\* validate(config) on the first RuleValidator
ValidateFirst ==
    /\ Len(history) < MaxCalls
    /\ \E rules \in SharedRulesValues :
          /\ rulesArg' = rules
          /\ validateRes' = validate(rules, config, validators)
    /\ call' = "validate"
    /\ validators' = validateRes'.cache
    /\ compilations' = compilations \o Added(validators, validators')
    /\ history' = Append(history, Ended1(validateRes'))
    /\ UNCHANGED <<config, arg, outcome, otherValidators>>
    /\ UNCHANGED schemaVars
    /\ UNCHANGED sharedVars

\* validate(config) on the second RuleValidator
ValidateSecond ==
    /\ Len(history) < MaxCalls
    /\ \E rules \in SharedRulesValues :
          /\ rulesArg' = rules
          /\ validateRes' = validate(rules, config, otherValidators)
    /\ call' = "validateOther"
    /\ otherValidators' = validateRes'.cache
    /\ history' = Append(history, Ended2(validateRes'))
    /\ UNCHANGED <<config, arg, outcome, validators, compilations>>
    /\ UNCHANGED schemaVars
    /\ UNCHANGED sharedVars

InstancesNext ==
    \/ ValidateFirst
    \/ ValidateSecond

SpecInstances == InstancesInit /\ [][InstancesNext]_vars

----------------------------------------------------------------------------
(* The schema functions: what the claims say of them *)

\* a schema location holds a schema when it is neither undefined nor null
IsPresent(sv) == sv.f \notin {"undefined", "null"}

\* the location the options schema is to be taken from
SelectedSchema(r) ==
    IF r.t \in {"undefined", "null"} THEN NoSchema
    ELSE IF IsPresent(r.schema) THEN r.schema
    ELSE IF r.meta = "object" THEN r.metaSchema
    ELSE NoSchema

\* a rule that holds sv at rule.schema and nothing else
OnlySchema(sv) == Rule("object", sv, "undefined", NoSchema)

\* a value satisfies an object-form schema
Accepts(sv, v) == AjvErrors(sv.obj, v) = <<>>

\* C11: getRuleOptionsSchema takes the schema from rule.schema when that is
\* present, otherwise from rule.meta.schema; it returns null for a null or
\* undefined rule and for a rule with no schema at either location; with a
\* schema at both locations the result is the one of the rule that only has
\* rule.schema, so rule.meta.schema has no say in what is accepted.
C11_SchemaSelection ==
    schemaCall \in {"getRuleOptionsSchema_L126", "getRuleOptionsSchema_L411"} =>
        LET selected == SelectedSchema(ruleArg)
            alone == IF schemaCall = "getRuleOptionsSchema_L126"
                     THEN getRuleOptionsSchema_L126(OnlySchema(selected))
                     ELSE getRuleOptionsSchema_L411(OnlySchema(selected))
        IN /\ res.kind = "return"
           /\ ~IsPresent(selected) => res.schema = NullSchema
           /\ IsPresent(selected) =>
                /\ res.schema # NullSchema
                /\ res.schema = alone
                /\ schemaCall = "getRuleOptionsSchema_L411" => res.schema = selected
                /\ schemaCall = "getRuleOptionsSchema_L126" /\ ~CompileThrows(res.schema.obj) =>
                      Accepts(res.schema, valueArg) = Accepts(alone, valueArg)

\* rule.schema is an array of schemas, rule.meta.schema an object: the result
\* is the wrapped array
C11_Witness ==
    /\ schemaCall = "getRuleOptionsSchema_L126"
    /\ ruleArg.t = "object"
    /\ ruleArg.schema.f = "array"
    /\ Len(ruleArg.schema.list) > 0
    /\ ruleArg.meta = "object"
    /\ ruleArg.metaSchema.f = "object"
    /\ res.schema.f = "object"
    /\ res.schema.obj.items = ruleArg.schema.list

\* an options array is what n positional schemas allow: it has at most n
\* options and each one satisfies the schema of its position
SatisfiesPositions(list, v) ==
    /\ v.t = "array"
    /\ Len(v.items) <= Len(list)
    /\ \A i \in 1..Len(v.items) : v.items[i] \in list[i].vals

\* C12: for a rule with n >= 1 positional schemas getRuleOptionsSchema (lines
\* 290-313) returns the array schema with minItems 0, maxItems n and the n
\* schemas as items, and an options array is accepted, by that schema and by
\* the validator of makeArraySchemaValidator, if and only if it has at most n
\* options and each option satisfies the schema of its position.
C12_PositionalSchemas ==
    LET selected == SelectedSchema(ruleArg) IN
    (selected.f = "array" /\ Len(selected.list) >= 1) =>
        /\ schemaCall = "getRuleOptionsSchema_L290" =>
              /\ res.schema = ObjectSchema(ArraySchema(selected.list, 0, Len(selected.list)))
              /\ Accepts(res.schema, valueArg) <=> SatisfiesPositions(selected.list, valueArg)
        /\ schemaCall = "getRuleConfigurationValidator" =>
              (res.kind = "return" <=> SatisfiesPositions(selected.list, valueArg))

\* C13: for a rule whose schema is the empty sequence only the empty options
\* array is accepted: the schema of lines 134-149 is satisfied by [] and by no
\* other value, and the validator of getRuleConfigurationValidator is
\* disallowOptions, which returns for [] and throws an Error for every
\* non-empty options array.
C13_NoOptions ==
    LET selected == SelectedSchema(ruleArg) IN
    (selected.f = "array" /\ Len(selected.list) = 0) =>
        /\ schemaCall = "getRuleOptionsSchema_L126" =>
              /\ res.schema.f = "object"
              /\ Accepts(res.schema, valueArg) <=> valueArg = ArrayValue(<<>>)
        /\ schemaCall = "getRuleConfigurationValidator" =>
              /\ res.validator = "disallowOptions"
              /\ res.kind = "return" <=> valueArg = ArrayValue(<<>>)
              /\ res.kind = "throw" => res.class = "Error"

\* a non-empty options array rejected by disallowOptions
C13_Witness ==
    /\ schemaCall = "getRuleConfigurationValidator"
    /\ SelectedSchema(ruleArg) = ListSchema(<<>>)
    /\ Len(valueArg.items) > 0
    /\ res.kind = "throw"
    /\ res.validator = "disallowOptions"

\* a schema object whose top level has no type constraint that a non-array
\* could satisfy: an enum, or a type constraint naming arrays only
OnlyArraysAtTopLevel(obj) ==
    \/ obj.k = "enum"
    \/ obj.k = "array"
    \/ (obj.k = "type" /\ obj.types = {"array"})

\* C14: for a rule whose schema, at rule.schema or rule.meta.schema, is one
\* schema object that does not admit a non-array at the top level, such as
\* {enum: [0]}, getRuleOptionsSchema returns exactly that schema value.
C14_ObjectSchemaUnchanged ==
    LET selected == SelectedSchema(ruleArg) IN
    (/\ schemaCall \in {"getRuleOptionsSchema_L126", "getRuleOptionsSchema_L290"}
     /\ selected.f = "object"
     /\ OnlyArraysAtTopLevel(selected.obj))
    => res.schema = selected

\* a schema object whose top-level type constraint a non-array value satisfies
AcceptsNonArrayType(obj) == obj.k = "type" /\ obj.types \ {"array"} # {}

\* C15: for a rule whose single-object schema has a top-level type constraint
\* that accepts a non-array value, getRuleOptionsSchema (lines 290-324) returns
\* null and the schema is not left in the engine's compilation cache; a
\* single-object schema whose top level accepts arrays only is returned.
C15_NonArraySchemaDropped ==
    LET selected == SelectedSchema(ruleArg) IN
    (schemaCall = "getRuleOptionsSchema_L290" /\ selected.f = "object") =>
        /\ AcceptsNonArrayType(selected.obj) =>
              /\ res.schema = NullSchema
              /\ selected.obj \notin ajvCache
        /\ (selected.obj.k = "type" /\ selected.obj.types = {"array"}) =>
              res.schema = selected

\* a value satisfies a schema object without items
SatisfiesLeaf(schema, v) ==
    CASE schema.k = "enum" -> v.t = "number" /\ v.n \in schema.vals
      [] schema.k = "type" -> v.t \in schema.types
      [] OTHER -> TRUE

\* a value satisfies a schema object
Satisfies(schema, v) ==
    CASE schema.k = "array" ->
            /\ v.t = "array"
            /\ Len(v.items) >= schema.min
            /\ Len(v.items) <= schema.max
            /\ \A i \in 1..Len(v.items) :
                  i <= Len(schema.items) => SatisfiesLeaf(schema.items[i], NumberValue(v.items[i]))
      [] schema.k = "anyOf" ->
            \E i \in 1..Len(schema.items) : SatisfiesLeaf(schema.items[i], v)
      [] OTHER -> SatisfiesLeaf(schema, v)

\* C16: for a schema the engine fails to compile, compileJsonSchema does not
\* throw and returns a validator that reports no error, for every value and
\* on every call.
C16_UncompilableSchemaAcceptsAll ==
    (schemaCall \in {"compileJsonSchema", "validator"} /\ CompileThrows(CompileInput)) =>
        /\ compiled = alwaysSucceedsCompiledSchema
        /\ schemaCall = "validator" => res = ErrorsReturned(<<>>)

\* the validator of a schema that does not compile, called with an object
C16_Witness ==
    /\ schemaCall = "validator"
    /\ CompileThrows(CompileInput)
    /\ valueArg = ObjectValue
    /\ res.kind = "return"
    /\ res.errors = <<>>

\* C17: for a schema that compiles, the validator compileJsonSchema returns
\* gives the empty list exactly when the value satisfies the schema, and
\* otherwise one string "<path> <message>." for each engine error, in the
\* engine's order; after every call compiledSchema.errors is null.
C17_ValidatorResult ==
    (schemaCall = "validator" /\ ~CompileThrows(CompileInput)) =>
        LET failures == AjvErrors(CompileInput, valueArg) IN
        /\ res.kind = "return"
        /\ res.errors = <<>> <=> Satisfies(CompileInput, valueArg)
        /\ Len(res.errors) = Len(failures)
        /\ \A i \in 1..Len(failures) :
              res.errors[i] = failures[i].dataPath \o <<" ">> \o failures[i].message \o <<".">>
        /\ engineErrors = NullErrors

\* a failing call: an option that its position's schema rejects
C17_Witness ==
    /\ schemaCall = "validator"
    /\ ~CompileThrows(CompileInput)
    /\ valueArg.t = "array"
    /\ Len(res.errors) = 1
    /\ res.errors[1][1] = "["
    /\ engineErrors = NullErrors

----------------------------------------------------------------------------
(* The rule validator: what the claims say of it *)

\* an entry validate is to skip: the key "__proto__", or severity 0
IsSkipped(entry) == entry.key = Proto \/ entry.severity = 0

\* the entries of config.rules that are not skipped, in order
EnabledEntries(rules) == SelectSeq(rules.entries, LAMBDA entry : ~IsSkipped(entry))

\* the members of a sequence
Range(q) == {q[i] : i \in 1..Len(q)}

\* C18: an entry whose key is "__proto__" or whose severity is 0 is skipped
\* before resolution: validate neither resolves its key nor checks its options,
\* it ends, and leaves the validator cache, exactly as it does for the config
\* without these entries, and with only such entries it returns and leaves
\* the cache as it was.
C18_SkippedEntries ==
    [][(call = "none" /\ call' = "validate" /\ rulesArg.t = "object") =>
          /\ \A i \in 1..Len(rulesArg.entries) :
                IsSkipped(rulesArg.entries[i]) =>
                    /\ rulesArg.entries[i].key \notin Range(validateRes'.resolved)
                    /\ rulesArg.entries[i].key \notin Range(validateRes'.checked)
          /\ validateRes' = validate(RulesOf(EnabledEntries(rulesArg)), config, validators)
          /\ validators' = validateRes'.cache
          /\ EnabledEntries(rulesArg) = <<>> =>
                /\ validateRes'.kind = "return"
                /\ validators' = validators
      ]_vars

\* a disabled entry whose key names no rule and a disabled entry whose options
\* violate the schema of its rule: validate returns and compiles nothing
C18_Witness ==
    /\ call = "validate"
    /\ validateRes.kind = "return"
    /\ validators = NoValidators
    /\ HasRule(config, <<"@">>, <<"a">>)
    /\ Entry(<<"a", "/", "b", "/", "a">>, 0, <<>>) \in Range(rulesArg.entries)
    /\ Entry(<<"a">>, 0, <<1>>) \in Range(rulesArg.entries)

\* the key validate was resolving when it threw
FailedKey == validateRes.resolved[Len(validateRes.resolved)]

\* validate threw because FailedKey cannot be resolved
FailedToResolve ==
    /\ call = "validate"
    /\ validateRes.kind = "throw"
    /\ resolveRuleId(Str(FailedKey), config).kind = "throw"

\* the kind of lookup error an unresolved identifier gets
KindOf(ruleId) ==
    IF Cardinality(SlashPositions(ruleId)) = 0 THEN noBuiltIn
    ELSE IF Cardinality(SlashPositions(ruleId)) = 1 THEN notInSpecifiedPlugin
    ELSE notInAnyPlugin

\* C19: when an enabled rule's identifier cannot be resolved and is not in the
\* removed-rules table, validate raises a lookup error of the kind of the
\* failed resolution (NO_BUILT_IN for a bare name, NOT_IN_SPECIFIED_PLUGIN for
\* one slash, NOT_IN_ANY_PLUGIN otherwise) whose message names the rule key,
\* with a "Did you mean" list exactly when searchForPartialRuleNameMatches
\* yields a candidate.
C19_UnresolvedRule ==
    (FailedToResolve /\ ruleReplacements(FailedKey) = <<>>) =>
        /\ validateRes.error.class = "RuleLookupError"
        /\ validateRes.error.code = KindOf(FailedKey)
        /\ validateRes.error.key = FailedKey
        /\ validateRes.error.alternatives # <<>>
              <=> searchForPartialRuleNameMatches(Str(FailedKey), config).items # <<>>

\* C20: when an enabled rule's identifier cannot be resolved and is a key of
\* the removed-rules table, validate raises a lookup error of kind NO_BUILT_IN
\* whose message names the replacements, with no "Did you mean" list.
C20_RemovedRule ==
    (FailedToResolve /\ ruleReplacements(FailedKey) # <<>>) =>
        /\ validateRes.error.class = "RuleLookupError"
        /\ validateRes.error.code = noBuiltIn
        /\ validateRes.error.replacements = ruleReplacements(FailedKey)
        /\ validateRes.error.alternatives = <<>>

\* the rule object an entry's key resolves to, and the options schema of it
ResolvedObject(entry) == getRuleFromConfig_L110(Str(entry.key), config).object
SchemaOfEntry(entry) == getRuleOptionsSchema_L126(ResolvedObject(entry).rule)

\* the key of an entry resolves to a rule
Resolves(entry) == resolveRuleId(Str(entry.key), config).kind = "return"

\* the key of an entry resolves to a rule that declares a schema
HasSchema(entry) == Resolves(entry) /\ IsPresent(SchemaOfEntry(entry))

\* an entry fails: its key does not resolve, or its options after the severity
\* do not satisfy the schema of its rule
EntryFails(entry) ==
    \/ ~Resolves(entry)
    \/ HasSchema(entry) /\ ~Satisfies(SchemaOfEntry(entry).obj, ArrayValue(entry.options))

\* the identities of the rule objects that have a validator in a cache
CacheIds(cache) == {cache[i].id : i \in 1..Len(cache)}

\* the enabled entries validate is to visit: up to the first one that fails
VisitedEntries(rules) ==
    LET enabled == EnabledEntries(rules)
        failing == {i \in 1..Len(enabled) : EntryFails(enabled[i])}
    IN IF failing = {} THEN enabled ELSE SubSeq(enabled, 1, Least(failing))

ObjectsWithSchema ==
    {object \in {RuleObject(ruleName) :
                    ruleName \in UNION {config.reg[i].rules : i \in 1..Len(config.reg)}} :
        IsPresent(getRuleOptionsSchema_L126(object.rule))}

\* the validators a cache holds for one rule object
EntriesOf(cache, id) == {i \in 1..Len(cache) : cache[i].id = id}

\* C22: over the validate calls on one RuleValidator the schema of a rule
\* object is compiled at most once: no rule object is compiled twice, the
\* cache has one validator for each compilation and never more validators
\* than there are rule objects with a schema, and two keys that resolve to
\* the same rule object are checked with the one validator of that object.
C22_CompiledOnce ==
    /\ \A i, j \in 1..Len(compilations) : i # j => compilations[i] # compilations[j]
    /\ Len(validators) = Len(compilations)
    /\ Len(validators) <= Cardinality(ObjectsWithSchema)
    /\ \A object \in ObjectsWithSchema : Cardinality(EntriesOf(validators, object.id)) <= 1
    /\ (call = "validate" /\ {<<"a">>, <<"a", "/", "a">>} \subseteq Range(validateRes.checked)) =>
          Cardinality(EntriesOf(validators, RuleObject(<<"a">>).id)) = 1

\* the second call on a RuleValidator checks the keys "a" and "a/a", which
\* name one rule object: it was compiled once
C22_Witness ==
    /\ call = "validate"
    /\ Len(history) = 2
    /\ history[1].instance = 1
    /\ validateRes.checked = << <<"a">>, <<"a", "/", "a">> >>
    /\ compilations = << <<"a">> >>

\* every validator of the cache before is in the cache after, in its place
Kept(before, after) ==
    /\ Len(before) <= Len(after)
    /\ \A i \in 1..Len(before) :
          after[i].id = before[i].id /\ after[i].schema = before[i].schema

\* C23: a new RuleValidator has an empty validator cache; no validate call,
\* returning or throwing, removes or replaces a validator of the cache; and a
\* call on one RuleValidator is decided by that object's cache alone and
\* leaves the other object's cache as it is.
C23_CacheOnlyGrows ==
    /\ (validators = NoValidators /\ otherValidators = NoValidators)
    /\ [][/\ Kept(validators, validators')
          /\ Kept(otherValidators, otherValidators')
          /\ call' = "validate" =>
                /\ otherValidators' = otherValidators
                /\ validateRes' = validate(rulesArg', config, validators)
          /\ call' = "validateOther" =>
                /\ validators' = validators
                /\ validateRes' = validate(rulesArg', config, otherValidators)
       ]_vars

\* a call that throws after a call that compiled a validator, and a second
\* RuleValidator that was never called
C23_Witness ==
    /\ Len(history) = 2
    /\ history[1] = [instance |-> 1, kind |-> "return", class |-> ""]
    /\ history[2] = [instance |-> 1, kind |-> "throw", class |-> "Error"]
    /\ Len(validators) = 2
    /\ otherValidators = NoValidators

\* C29: the outcome of a validate call is decided by the config it is handed,
\* not by the calls made before it on the same RuleValidator: it throws
\* exactly when an enabled entry fails on its own account, whatever an earlier
\* call left on the cached validator, and the validator of the entry checked
\* last has errors exactly when that entry's options violate the schema.
C29_NoCarriedErrors ==
    [][call' = "validate" =>
          \A visited \in {VisitedEntries(rulesArg')} :
             /\ visited = <<>> => validateRes'.kind = "return"
             /\ \A last \in {visited[i] : i \in {Len(visited)} \ {0}} :
                   /\ validateRes'.kind = "throw" <=> EntryFails(last)
                   /\ HasSchema(last) =>
                         /\ Has(validators', ResolvedObject(last).id)
                         /\ Get(validators', ResolvedObject(last).id).errors = NullErrors
                               <=> Satisfies(SchemaOfEntry(last).obj, ArrayValue(last.options))
      ]_vars

\* a call threw an options error for the rule object "a"; the next call on the
\* same RuleValidator, with options the schema accepts, returns
C29_Witness ==
    /\ history = << [instance |-> 1, kind |-> "throw", class |-> "Error"],
                    [instance |-> 1, kind |-> "return", class |-> ""] >>
    /\ compilations = << <<"a">> >>
    /\ validateRes.checked = << <<"a", "/", "a">> >>
    /\ validators[1].errors = NullErrors

C25_NoSchemaAcceptsAll ==
    (call = "validate" /\ rulesArg.t = "object") =>
        \A visited \in {VisitedEntries(rulesArg)} :
        \A enabled \in {EnabledEntries(rulesArg)} :
           \A i \in 1..Len(visited) :
              (Resolves(visited[i]) /\ ~HasSchema(visited[i])) =>
                  /\ visited[i].key \in Range(validateRes.resolved)
                  /\ visited[i].key \notin Range(validateRes.checked)
                  /\ ResolvedObject(visited[i]).id \notin CacheIds(validators)
                  /\ ResolvedObject(visited[i]).id \notin Range(compilations)
                  /\ validateRes.kind = "throw" => validateRes.error.key # visited[i].key
                  /\ IF i < Len(enabled)
                     THEN enabled[i + 1].key \in Range(validateRes.resolved)
                     ELSE validateRes.kind = "return"

\* the rule "ab" declares no schema and is given an option, the bare function
\* "b" of the plugin "a" too: validate resolves both, checks neither and returns
C25_Witness ==
    /\ call = "validate"
    /\ rulesArg.t = "object"
    /\ rulesArg.entries =
           << Entry(<<"a", "b">>, 2, <<1>>), Entry(<<"a", "/", "b">>, 2, <<0>>) >>
    /\ validateRes.kind = "return"
    /\ validateRes.resolved = << <<"a", "b">>, <<"a", "/", "b">> >>
    /\ validateRes.checked = <<>>
    /\ validators = validateRes.cache
    /\ compilations = <<>>

----------------------------------------------------------------------------
(* Claim formulas of the lookup calls made twice *)

----------------------------------------------------------------------------
(* The state machine of the string utilities: a caller holds a string, a   *)
(* separator and the two options, and runs the generator to its end        *)

\* The values handed over as str
SplitStrings == {Str(s) : s \in Strs(MaxLen)} \cup {Undefined, Five}

\* The values handed over as separator: one character, two characters, the
\* empty string, no string
Separators == {Str(Slash), Str(<<"a", "b">>), Str(<<>>), Undefined}

SplitInit ==
    /\ config = NotMapping(Undefined)
    /\ arg \in SplitStrings
    /\ call = "none"
    /\ outcome = NoOutcome
    /\ ruleArg = UndefinedRule
    /\ valueArg = UndefinedValue
    /\ schemaCall = "none"
    /\ res = NoRes
    /\ ajvCache = {}
    /\ compiled = NotCompiled
    /\ engineErrors = NullErrors
    /\ rulesArg = NoRules
    /\ validators = NoValidators
    /\ validateRes = NotValidated
    /\ otherValidators = NoValidators
    /\ compilations = <<>>
    /\ history = <<>>
    /\ splitArgs \in {SplitArgs(separator, includeStart, includeEnd) :
                         separator \in Separators,
                         includeStart \in BOOLEAN, includeEnd \in BOOLEAN}
    /\ versions = NoVersions
    /\ comparison = NotCompared

\* [...enumerateSplitPoints(str, separator, { includeStart, includeEnd })]
EnumerateSplitPoints ==
    /\ call = "none"
    /\ call' = "enumerateSplitPoints"
    /\ outcome' =
          LET splits == enumerateSplitPoints(arg, splitArgs.separator,
                                             splitArgs.includeStart, splitArgs.includeEnd)
          IN IF splits.threw THEN Thrown("TypeError", NoCode) ELSE Yielded(splits.items)
    /\ UNCHANGED <<config, arg>>
    /\ UNCHANGED schemaVars
    /\ UNCHANGED validateVars
    /\ UNCHANGED instanceVars
    /\ UNCHANGED sharedVars

SplitNext == EnumerateSplitPoints

SpecSplit == SplitInit /\ [][SplitNext]_vars

----------------------------------------------------------------------------
(* Claim formulas of the string utilities *)

\* the 0-based positions at which the separator occurs in a string
Occurrences(str, separator) ==
    {i \in 0..(Len(str) - Len(separator)) : SubSeq(str, i + 1, i + Len(separator)) = separator}

RECURSIVE Increasing(_)
\* the numbers of a set in increasing order
Increasing(S) ==
    IF S = {} THEN <<>> ELSE <<Least(S)>> \o Increasing(S \ {Least(S)})

\* the pairs the generator is to yield: one for each occurrence, between the
\* pair of the start and the pair of the end
ExpectedSplitPoints ==
    LET str == arg.s
        separator == splitArgs.separator.s
        positions == Increasing(Occurrences(str, separator))
    IN (IF splitArgs.includeStart THEN << <<<<>>, str>> >> ELSE <<>>)
       \o [k \in 1..Len(positions) |->
              <<SubSeq(str, 1, positions[k]),
                SubSeq(str, positions[k] + Len(separator) + 1, Len(str))>>]
       \o (IF splitArgs.includeEnd THEN << <<str, <<>>>> >> ELSE <<>>)

\* C27: for a string and a non-empty separator, enumerateSplitPoints yields
\* one pair [before, after] for each occurrence of the separator, an
\* occurrence at index 0 included, in increasing position, after ["", str]
\* when includeStart is set and before [str, ""] when includeEnd is set, and
\* nothing else.
C27_SplitPoints ==
    (/\ call = "enumerateSplitPoints"
     /\ arg.t = "string"
     /\ splitArgs.separator.t = "string"
     /\ splitArgs.separator.s # <<>>)
    => outcome = Yielded(ExpectedSplitPoints)

----------------------------------------------------------------------------
(* The state machine of the version helpers: a caller holds two versions   *)
(* and compares them                                                        *)

\* The numbers handed over as a version: revisions, years, and the numbers
\* next to the ends of their ranges
VersionNumbers == {0, 3, 4, 5, 6, 7, 99, 100, 2014, 2015, 2016, 2099, 2100}

\* The strings handed over as a version, in either case, with and without
\* the letters
VersionStrings ==
    { <<"e", "s", "3">>, <<"e", "s", "4">>, <<"e", "s", "5">>, <<"e", "s", "6">>,
      <<"E", "S", "6">>, <<"e", "s", "7">>, <<"e", "s", "0", "6">>, <<"e", "s", "9", "9">>,
      <<"e", "s", "1", "0", "0">>, <<"e", "s", "2", "0", "1", "4">>,
      <<"e", "s", "2", "0", "1", "5">>, <<"E", "s", "2", "0", "1", "6">>,
      <<"e", "s", "2", "0", "9", "9">>, <<"e", "s", "2", "1", "0", "0">>,
      <<"e", "s">>, <<"6">>, <<>> }

EcmaVersions ==
    {NumberVersion(n) : n \in VersionNumbers}
    \cup {StringVersion(s) : s \in VersionStrings}
    \cup {UndefinedVersion}

EcmaInit ==
    /\ config = NotMapping(Undefined)
    /\ arg = Undefined
    /\ call = "none"
    /\ outcome = NoOutcome
    /\ ruleArg = UndefinedRule
    /\ valueArg = UndefinedValue
    /\ schemaCall = "none"
    /\ res = NoRes
    /\ ajvCache = {}
    /\ compiled = NotCompiled
    /\ engineErrors = NullErrors
    /\ rulesArg = NoRules
    /\ validators = NoValidators
    /\ validateRes = NotValidated
    /\ otherValidators = NoValidators
    /\ compilations = <<>>
    /\ history = <<>>
    /\ splitArgs = NoSplitArgs
    /\ versions \in {Versions(versionA, versionB) :
                        versionA \in EcmaVersions, versionB \in EcmaVersions}
    /\ comparison = NotCompared

\* compareEcmaVersions(versionA, versionB)
CompareEcmaVersions ==
    /\ comparison.kind = "none"
    /\ comparison' = compareEcmaVersions(versions.a, versions.b)
    /\ UNCHANGED <<splitArgs, versions>>
    /\ UNCHANGED lookupVars
    /\ UNCHANGED schemaVars
    /\ UNCHANGED validateVars
    /\ UNCHANGED instanceVars

EcmaNext == CompareEcmaVersions

SpecEcma == EcmaInit /\ [][EcmaNext]_vars

----------------------------------------------------------------------------
(* Claim formulas of the version helpers *)

\* the numbers that are a version: the revisions 3, 5 and 6 to 99, and the
\* years 2015 to 2099
ValidVersionNumbers == {3, 5} \cup (6..99) \cup (2015..2099)

RECURSIVE Decimal(_)
\* the decimal digits of a natural number
Decimal(n) ==
    IF n < 10 THEN <<Digits[n + 1]>> ELSE Decimal(n \div 10) \o <<Digits[(n % 10) + 1]>>

\* the numbers a version stands for: itself for a number, the number after
\* "es" (in either case) for a string; none when it is no valid version
NumbersOf(version) ==
    IF version.t = "number"
    THEN {version.n} \cap ValidVersionNumbers
    ELSE IF version.t = "string"
    THEN {n \in ValidVersionNumbers :
             [i \in 1..Len(version.s) |-> LowerCase(version.s[i])] = <<"e", "s">> \o Decimal(n)}
    ELSE {}

IsValidVersion(version) == NumbersOf(version) # {}

\* the spec revision of a valid version: the year forms start at 2015 for
\* revision 6
RevisionOf(version) ==
    LET n == CHOOSE m \in NumbersOf(version) : TRUE
    IN IF n >= 2015 THEN n - 2009 ELSE n

\* C28: for two valid versions, strings in either case or numbers,
\* compareEcmaVersions returns -1, 0 or 1 by the order of their spec
\* revisions, the revision form and the year form of one edition being equal;
\* it throws only when one of the two is no valid version.
C28_CompareVersions ==
    comparison.kind # "none" =>
        /\ (IsValidVersion(versions.a) /\ IsValidVersion(versions.b)) =>
              comparison =
                 Comparison("return", "",
                            IF RevisionOf(versions.a) < RevisionOf(versions.b) THEN -1
                            ELSE IF RevisionOf(versions.a) > RevisionOf(versions.b) THEN 1
                            ELSE 0)
        /\ comparison.kind = "throw" =>
              ~IsValidVersion(versions.a) \/ ~IsValidVersion(versions.b)

----------------------------------------------------------------------------
(* Claim formulas of the lookup by parseRuleId *)

\* C30: resolveRuleId agrees with the lookup by parseRuleId: for an
\* identifier whose fixed split ("@" for a bare name, up to the last slash
\* for an identifier that begins with "@", up to the first slash otherwise)
\* names a registered plugin that has the remaining rule name, resolveRuleId
\* returns that pair.
C30_AgreesWithParseRuleId ==
    (/\ call = "resolveRuleId"
     /\ arg.t = "string"
     /\ getRuleFromConfig_L388(arg, config) # ReturnedUndefined)
    => outcome = getRuleFromConfig_L388(arg, config)

=============================================================================
